---- MODULE Spec2Model ----
(***************************************************************************)
(* Residual assembly of the quail discontinuous-Galerkin solver            *)
(* (solver/base.py, solver/DG.py, physics/scalar/functions.py) on 1-D      *)
(* segment meshes with an order-1 basis and one state variable.            *)
(*                                                                         *)
(* Arithmetic is exact.  Every entry of the residual R is a multiple of    *)
(* 1/2 (the reference gradient of the order-1 Lagrange basis is -1/2,      *)
(* +1/2), so R and the integrals accumulated into it are stored in units   *)
(* of 1/2: a stored 2 is the real number 1.  The state U, the fluxes Fq    *)
(* and the sources Sq are stored in units of 1.                            *)
(***************************************************************************)
EXTENDS Integers, Sequences, FiniteSets, TLC

\* ------------------------------------------------------------------ bounds
MaxElems == 2
MaxU == 1
MaxCalls == 2

\* ------------------------------------------------------- program constants
NFACES == 2
nb == 2
nq == 2
nq_face == 1

VARIABLES mesh, params, U, R, Rarg, order, pc, visited, trace, ncalls,
          fluxLog, lastIFace

\* the interior-face helpers of a 2-D mesh while they are precomputed
VARIABLES int_face_helpers

\* a solver object from the start of its constructor to the end of its time
\* loop
VARIABLES solver

\* a residual evaluation seen through the finiteness of its numbers only
VARIABLES nonfinite

\* a triangle mesh and the solver arrays that follow it through adapt
VARIABLES adaptation

\* the solver clock custom_user_adaptation reads and what it last returned
VARIABLES user_adaptation

\* the state of the residual assembly
residual_vars == <<mesh, params, U, R, Rarg, order, pc, visited, trace,
                   ncalls, fluxLog, lastIFace>>

\* the state outside the residual assembly
others == <<int_face_helpers, solver, nonfinite, adaptation, user_adaptation>>
\* everything but the interior-face helpers, but the solver object, but the
\* finiteness view, but the adapted mesh, but the adaptation callback
not_helpers == <<residual_vars, solver, nonfinite, adaptation, user_adaptation>>
not_solver == <<residual_vars, int_face_helpers, nonfinite, adaptation,
                user_adaptation>>
not_nonfinite == <<residual_vars, int_face_helpers, solver, adaptation,
                   user_adaptation>>
not_adaptation == <<residual_vars, int_face_helpers, solver, nonfinite,
                    user_adaptation>>
not_user_adaptation == <<residual_vars, int_face_helpers, solver, nonfinite,
                         adaptation>>

vars == <<residual_vars, others>>

\* ------------------------------------------------------------------ helpers
RECURSIVE SumOver(_, _)
SumOver(f, S) ==
  IF S = {} THEN 0
  ELSE LET x == CHOOSE y \in S : TRUE IN f[x] + SumOver(f, S \ {x})

Basis == 0..(nb - 1)
QuadElem == 0..(nq - 1)
QuadFace == 0..(nq_face - 1)

None == [e \in {} |-> 0]

\* --------------------------------------------------------------------- mesh
\* Interior face k of a line of n segments joins element k and element k+1
\* (the last one wraps around on a periodic mesh).  With flip, every other
\* face is registered with the right-hand element as its left element.
InteriorFace(n, k, flipped) ==
  LET a == k
      b == (k + 1) % n
  IN IF flipped
     THEN [elemL_ID |-> b, faceL_ID |-> 0, elemR_ID |-> a, faceR_ID |-> 1]
     ELSE [elemL_ID |-> a, faceL_ID |-> 1, elemR_ID |-> b, faceR_ID |-> 0]

mesh_1D(n, periodic, flip) ==
  LET ni == IF periodic THEN n ELSE n - 1
  IN [num_elems |-> n,
      periodic |-> periodic,
      num_interior_faces |-> ni,
      interior_faces |->
        [k \in 0..(ni - 1) |-> InteriorFace(n, k, flip /\ (k % 2 = 0))],
      boundary_faces |->
        IF periodic THEN [k \in {} |-> 0]
        ELSE [k \in 0..1 |->
               IF k = 0
               THEN [group |-> "Left", elem_ID |-> 0, face_ID |-> 0]
               ELSE [group |-> "Right", elem_ID |-> n - 1, face_ID |-> 1]]]

Meshes ==
  {mesh_1D(n, p, f) : n \in 1..MaxElems, p \in BOOLEAN, f \in BOOLEAN}

NumBFaces == Cardinality(DOMAIN mesh.boundary_faces)

\* outward normal of a segment at its local face: -1 at face 0, +1 at face 1
calculate_normals(elem_ID, face_ID) ==
  [q \in QuadFace |-> IF face_ID = 0 THEN -1 ELSE 1]

\* -------------------------------------------------------------------- basis
\* order-1 basis values at the reference point xi in {-1, 1}
get_values(xi) ==
  IF params.InterpBasis = "LagrangeSeg"
  THEN [b \in Basis |-> IF b = 0 THEN (1 - xi) \div 2 ELSE (1 + xi) \div 2]
  ELSE [b \in Basis |-> IF b = 0 THEN 1 ELSE xi]

\* reference gradient of the order-1 basis, in units of 1/2
get_grads2(xi) ==
  IF params.InterpBasis = "LagrangeSeg"
  THEN [b \in Basis |-> IF b = 0 THEN -1 ELSE 1]
  ELSE [b \in Basis |-> IF b = 0 THEN 0 ELSE 2]

\* element quadrature: the two-point Gauss-Lobatto rule, points -1 and +1
elem_quad_pts == [q \in QuadElem |-> IF q = 0 THEN -1 ELSE 1]
elem_quad_wts == [q \in QuadElem |-> 1]

\* face quadrature: a face of a segment is one point of weight 1
face_quad_pts == [q \in QuadFace |-> 0]
face_quad_wts == [q \in QuadFace |-> 1]

Reversed(pts) ==
  [q \in DOMAIN pts |-> pts[Cardinality(DOMAIN pts) - 1 - q]]

\* basis values on local face face_ID at the face quadrature points pts
get_basis_face_val_grads(face_ID, pts) ==
  [q \in DOMAIN pts |-> get_values(IF face_ID = 0 THEN -1 ELSE 1)]

basis_val == [q \in QuadElem |-> get_values(elem_quad_pts[q])]

\* elements have length 2: jacobian, inverse jacobian and determinant are 1
djac_elems(elem_ID) == [q \in QuadElem |-> 1]

basis_phys_grad2(elem_ID) == [q \in QuadElem |-> get_grads2(elem_quad_pts[q])]

faces_to_basisL ==
  [f \in 0..(NFACES - 1) |-> get_basis_face_val_grads(f, face_quad_pts)]

faces_to_basisR ==
  [f \in 0..(NFACES - 1) |->
     get_basis_face_val_grads(f, Reversed(face_quad_pts))]

faces_to_basis ==
  [f \in 0..(NFACES - 1) |-> get_basis_face_val_grads(f, face_quad_pts)]

\* the normals taken from the right element of every face
normals_ifaces_from_right ==
  [i \in DOMAIN mesh.interior_faces |->
     calculate_normals(mesh.interior_faces[i].elemR_ID,
                       mesh.interior_faces[i].faceR_ID)]

normals_ifaces ==
  [i \in DOMAIN mesh.interior_faces |->
     calculate_normals(mesh.interior_faces[i].elemL_ID,
                       mesh.interior_faces[i].faceL_ID)]

normals_bgroups ==
  [j \in DOMAIN mesh.boundary_faces |->
     calculate_normals(mesh.boundary_faces[j].elem_ID,
                       mesh.boundary_faces[j].face_ID)]

evaluate_state(Uc, bval) ==
  [q \in DOMAIN bval |->
     SumOver([b \in Basis |-> bval[q][b] * Uc[b]], Basis)]

\* ------------------------------------------------------------------ physics
Abs(x) == IF x < 0 THEN -x ELSE x

\* constant-velocity scalar advection: F(u) = c u
get_conv_flux_interior(Uq) == [q \in DOMAIN Uq |-> params.c * Uq[q]]

get_conv_flux_projected(Uq, n_hat) ==
  [q \in DOMAIN Uq |-> params.c * Uq[q] * n_hat[q]]

\* ExactLinearFlux.compute_flux
\* the upwind side chosen with the opposite sign test
compute_flux_downwind(UqL, UqR, normals) ==
  LET n_mag == [q \in DOMAIN normals |-> Abs(normals[q])]
      n_hat == [q \in DOMAIN normals |-> normals[q] \div n_mag[q]]
      iL == [q \in DOMAIN normals |-> n_hat[q] * params.c < 0]
      Uq_upwind == [q \in DOMAIN UqR |-> IF iL[q] THEN UqL[q] ELSE UqR[q]]
      Fq == get_conv_flux_projected(Uq_upwind, n_hat)
  IN [q \in DOMAIN normals |-> n_mag[q] * Fq[q]]

compute_flux(UqL, UqR, normals) ==
  LET n_mag == [q \in DOMAIN normals |-> Abs(normals[q])]
      n_hat == [q \in DOMAIN normals |-> normals[q] \div n_mag[q]]
      iL == [q \in DOMAIN normals |-> n_hat[q] * params.c >= 0]
      Uq_upwind == [q \in DOMAIN UqR |-> IF iL[q] THEN UqL[q] ELSE UqR[q]]
      Fq == get_conv_flux_projected(Uq_upwind, n_hat)
  IN [q \in DOMAIN normals |-> n_mag[q] * Fq[q]]

\* another single-valued numerical flux: twice the central flux of F(u) = u
central_flux(UqL, UqR, normals) ==
  [q \in DOMAIN normals |-> normals[q] * (UqL[q] + UqR[q])]

get_conv_flux_numerical(UqL, UqR, normals) ==
  IF params.ConvFluxNumerical = "ExactLinearFlux"
  THEN compute_flux(UqL, UqR, normals)
  ELSE central_flux(UqL, UqR, normals)

\* SimpleSource.get_source: S = nu U
eval_source_terms(Uq) == [q \in DOMAIN Uq |-> params.nu * Uq[q]]

\* boundary conditions, keyed by the name of the boundary group
BCs == [Left |-> "StateAll", Right |-> "Extrapolate"]

\* StateAll imposes the state 1 through the numerical flux; Extrapolate
\* takes the interior state and its physical flux projected on the normal
get_boundary_flux(BC, UqI, normals) ==
  IF BC = "StateAll"
  THEN get_conv_flux_numerical(UqI, [q \in DOMAIN UqI |-> 1], normals)
  ELSE [q \in DOMAIN UqI |-> params.c * UqI[q] * normals[q]]

\* ---------------------------------------------------------------- integrals
\* all three return the integral against every basis function in units of 1/2
calculate_inviscid_flux_volume_integral(elem_ID, Fq) ==
  [b \in Basis |->
     SumOver([q \in QuadElem |->
                basis_phys_grad2(elem_ID)[q][b] * Fq[q]
                  * elem_quad_wts[q] * djac_elems(elem_ID)[q]], QuadElem)]

calculate_source_term_integral(elem_ID, Sq) ==
  [b \in Basis |->
     2 * SumOver([q \in QuadElem |->
                    basis_val[q][b] * Sq[q]
                      * elem_quad_wts[q] * djac_elems(elem_ID)[q]], QuadElem)]

calculate_inviscid_flux_boundary_integral(bval, quad_wts, Fq) ==
  [b \in Basis |->
     2 * SumOver([q \in DOMAIN Fq |-> bval[q][b] * quad_wts[q] * Fq[q]],
                 DOMAIN Fq)]

Plus(A, B) == [b \in DOMAIN A |-> A[b] + B[b]]
Minus(A, B) == [b \in DOMAIN A |-> A[b] - B[b]]

\* ------------------------------------------------------------- DG residuals
\* the flux integral assigned to R_elem instead of accumulated into it
get_element_residual_assign(elem_ID, Uc, R_elem) ==
  LET Uq == evaluate_state(Uc, basis_val)
      R1 == IF params.ConvFluxSwitch = TRUE
            THEN calculate_inviscid_flux_volume_integral(
                   elem_ID, get_conv_flux_interior(Uq))
            ELSE R_elem
  IN IF params.SourceSwitch = TRUE
     THEN Plus(R1, calculate_source_term_integral(
                     elem_ID, eval_source_terms(Uq)))
     ELSE R1

\* the source integral accumulated whatever SourceSwitch says
get_element_residual_source_always(elem_ID, Uc, R_elem) ==
  LET Uq == evaluate_state(Uc, basis_val)
      R1 == IF params.ConvFluxSwitch = TRUE
            THEN Plus(R_elem, calculate_inviscid_flux_volume_integral(
                                elem_ID, get_conv_flux_interior(Uq)))
            ELSE R_elem
  IN Plus(R1, calculate_source_term_integral(
                elem_ID, eval_source_terms(Uq)))

\* the flux integral subtracted from R_elem
get_element_residual_flux_sub(elem_ID, Uc, R_elem) ==
  LET Uq == evaluate_state(Uc, basis_val)
      R1 == IF params.ConvFluxSwitch = TRUE
            THEN Minus(R_elem, calculate_inviscid_flux_volume_integral(
                                 elem_ID, get_conv_flux_interior(Uq)))
            ELSE R_elem
  IN IF params.SourceSwitch = TRUE
     THEN Plus(R1, calculate_source_term_integral(
                     elem_ID, eval_source_terms(Uq)))
     ELSE R1

get_element_residual(elem_ID, Uc, R_elem) ==
  LET Uq == evaluate_state(Uc, basis_val)
      R1 == IF params.ConvFluxSwitch = TRUE
            THEN Plus(R_elem, calculate_inviscid_flux_volume_integral(
                                elem_ID, get_conv_flux_interior(Uq)))
            ELSE R_elem
  IN IF params.SourceSwitch = TRUE
     THEN Plus(R1, calculate_source_term_integral(
                     elem_ID, eval_source_terms(Uq)))
     ELSE R1

\* "R_L -= calculate_inviscid_flux_boundary_integral(basis_valL, ...)"
iface_accumulate_left_add(R_L, basis_valL, Fq) ==
  Plus(R_L, calculate_inviscid_flux_boundary_integral(
              basis_valL, face_quad_wts, Fq))

iface_accumulate_left(R_L, basis_valL, Fq) ==
  Minus(R_L, calculate_inviscid_flux_boundary_integral(
               basis_valL, face_quad_wts, Fq))

\* "R_R += calculate_inviscid_flux_boundary_integral(basis_valR, ...)"
iface_accumulate_right_sub(R_R, basis_valR, Fq) ==
  Minus(R_R, calculate_inviscid_flux_boundary_integral(
               basis_valR, face_quad_wts, Fq))

iface_accumulate_right(R_R, basis_valR, Fq) ==
  Plus(R_R, calculate_inviscid_flux_boundary_integral(
              basis_valR, face_quad_wts, Fq))

\* R_L and R_R taken as copies of the rows of Rarr that are written back: the
\* update of the right row starts from the row as it was before the face
get_interior_face_residual_copies(int_face_ID, Uarr, Rarr) ==
  LET interior_face == mesh.interior_faces[int_face_ID]
      elemL == interior_face.elemL_ID
      elemR == interior_face.elemR_ID
      basis_valL == faces_to_basisL[interior_face.faceL_ID]
      basis_valR == faces_to_basisR[interior_face.faceR_ID]
      UqL == evaluate_state(Uarr[elemL], basis_valL)
      UqR == evaluate_state(Uarr[elemR], basis_valR)
      normals == normals_ifaces[int_face_ID]
      Fq == get_conv_flux_numerical(UqL, UqR, normals)
      RaL == [Rarr EXCEPT ![elemL] = iface_accumulate_left(@, basis_valL, Fq)]
      RaR == [RaL EXCEPT ![elemR] =
                iface_accumulate_right(Rarr[elemR], basis_valR, Fq)]
  IN IF params.ConvFluxSwitch = TRUE
     THEN [R |-> RaR,
           calls |-> <<[UqL |-> UqL, UqR |-> UqR, normals |-> normals,
                        Fq |-> Fq]>>]
     ELSE [R |-> Rarr, calls |-> <<>>]

\* R_L and R_R are views of the rows elemL and elemR of Rarr: the two
\* in-place updates are applied to Rarr one after the other.  calls lists
\* the evaluations of the numerical flux.
get_interior_face_residual(int_face_ID, Uarr, Rarr) ==
  LET interior_face == mesh.interior_faces[int_face_ID]
      elemL == interior_face.elemL_ID
      elemR == interior_face.elemR_ID
      basis_valL == faces_to_basisL[interior_face.faceL_ID]
      basis_valR == faces_to_basisR[interior_face.faceR_ID]
      UqL == evaluate_state(Uarr[elemL], basis_valL)
      UqR == evaluate_state(Uarr[elemR], basis_valR)
      normals == normals_ifaces[int_face_ID]
      Fq == get_conv_flux_numerical(UqL, UqR, normals)
      RaL == [Rarr EXCEPT ![elemL] = iface_accumulate_left(@, basis_valL, Fq)]
      RaR == [RaL EXCEPT ![elemR] = iface_accumulate_right(@, basis_valR, Fq)]
  IN IF params.ConvFluxSwitch = TRUE
     THEN [R |-> RaR,
           calls |-> <<[UqL |-> UqL, UqR |-> UqR, normals |-> normals,
                        Fq |-> Fq]>>]
     ELSE [R |-> Rarr, calls |-> <<>>]

\* the boundary condition of the first group taken for every face
get_boundary_face_residual_first_group(bface_ID, Uc, R_B) ==
  LET boundary_face == mesh.boundary_faces[bface_ID]
      bval == faces_to_basis[boundary_face.face_ID]
      normals == normals_bgroups[bface_ID]
      BC == BCs["Left"]
      UqI == evaluate_state(Uc, bval)
      Fq == get_boundary_flux(BC, UqI, normals)
  IN IF params.ConvFluxSwitch = TRUE
     THEN Minus(R_B, calculate_inviscid_flux_boundary_integral(
                       bval, face_quad_wts, Fq))
     ELSE R_B

get_boundary_face_residual(bface_ID, Uc, R_B) ==
  LET boundary_face == mesh.boundary_faces[bface_ID]
      bval == faces_to_basis[boundary_face.face_ID]
      normals == normals_bgroups[bface_ID]
      BC == BCs[boundary_face.group]
      UqI == evaluate_state(Uc, bval)
      Fq == get_boundary_flux(BC, UqI, normals)
  IN IF params.ConvFluxSwitch = TRUE
     THEN Minus(R_B, calculate_inviscid_flux_boundary_integral(
                       bval, face_quad_wts, Fq))
     ELSE R_B

\* ------------------------------------------------------- calculate_residual
\* the allocation without the zeroing
calculate_residual_init_nozero(Uarr, Rarr) ==
  IF Rarr = None THEN Uarr ELSE Rarr

\* "if R is None: R = np.copy(U)" and "R[:] = 0."
calculate_residual_init(Uarr, Rarr) ==
  LET Ra == IF Rarr = None THEN Uarr ELSE Rarr
  IN [e \in DOMAIN Ra |-> [b \in DOMAIN Ra[e] |-> 0]]

\* the element loop moved before the boundary-face loop
PhaseOrder_elems_first == <<"elems", "bfaces", "ifaces">>

\* the three accumulation calls, in the order calculate_residual makes them
PhaseOrder == <<"bfaces", "elems", "ifaces">>

Phases == {"bfaces", "elems", "ifaces"}

\* the faces or elements a loop of calculate_residual runs over
PhaseItems(p) ==
  IF p = "bfaces" THEN DOMAIN mesh.boundary_faces
  ELSE IF p = "elems" THEN 0..(mesh.num_elems - 1)
  ELSE DOMAIN mesh.interior_faces

PhaseAfter(ord, p) ==
  LET i == CHOOSE k \in 1..3 : ord[k] = p
  IN IF i = 3 THEN "done" ELSE ord[i + 1]

NoneVisited == [bfaces |-> {}, elems |-> {}, ifaces |-> {}]

\* range(n) visits the smallest index not visited yet
NextInRange(p) == Cardinality(visited[p])

\* the residual calculate_residual returns for the state Uarr: the three
\* loops in the order of the code, started from an array of zeros
RECURSIVE AssembleBFaces(_, _, _)
AssembleBFaces(k, Uarr, Rarr) ==
  IF k >= NumBFaces THEN Rarr
  ELSE LET elem == mesh.boundary_faces[k].elem_ID
       IN AssembleBFaces(k + 1, Uarr,
            [Rarr EXCEPT ![elem] =
               get_boundary_face_residual(k, Uarr[elem], Rarr[elem])])

RECURSIVE AssembleElems(_, _, _)
AssembleElems(k, Uarr, Rarr) ==
  IF k >= mesh.num_elems THEN Rarr
  ELSE AssembleElems(k + 1, Uarr,
         [Rarr EXCEPT ![k] = get_element_residual(k, Uarr[k], Rarr[k])])

RECURSIVE AssembleIFaces(_, _, _)
AssembleIFaces(k, Uarr, Rarr) ==
  IF k >= mesh.num_interior_faces THEN Rarr
  ELSE AssembleIFaces(k + 1, Uarr,
         get_interior_face_residual(k, Uarr, Rarr).R)

ZerosLike(Uarr) == [e \in DOMAIN Uarr |-> [b \in DOMAIN Uarr[e] |-> 0]]

AssembledResidual(Uarr) ==
  AssembleIFaces(0, Uarr,
    AssembleElems(0, Uarr, AssembleBFaces(0, Uarr, ZerosLike(Uarr))))

\* ----------------------------------------------------------------- inputs
WaveSpeeds == {-1, 0, 1, 2}

FluxConfigs ==
  {[ConvFluxSwitch |-> TRUE, c |-> w, ConvFluxNumerical |-> "ExactLinearFlux"]
     : w \in WaveSpeeds}
  \cup {[ConvFluxSwitch |-> TRUE, c |-> 1, ConvFluxNumerical |-> "Central"],
        [ConvFluxSwitch |-> FALSE, c |-> 1,
         ConvFluxNumerical |-> "ExactLinearFlux"]}

SourceConfigs ==
  {[SourceSwitch |-> TRUE, nu |-> 0], [SourceSwitch |-> TRUE, nu |-> -1],
   [SourceSwitch |-> FALSE, nu |-> -1]}

Params ==
  {[InterpBasis |-> bs, ConvFluxSwitch |-> f.ConvFluxSwitch, c |-> f.c,
    ConvFluxNumerical |-> f.ConvFluxNumerical,
    SourceSwitch |-> s.SourceSwitch, nu |-> s.nu]
     : bs \in {"LagrangeSeg", "LegendreSeg"}, f \in FluxConfigs,
       s \in SourceConfigs}

\* coefficients of one element: constant, or zero in one coefficient
ElemStates ==
  {s \in [Basis -> 0..MaxU] : s[0] = s[1] \/ s[1] = 0}

\* the state the stepper passes to the next residual evaluation
NextInput(Uarr) ==
  [e \in DOMAIN Uarr |-> Uarr[mesh.num_elems - 1 - e]]

\* ------------------------------------------------------------------ actions
InitWith(P, Orders) ==
  /\ mesh \in Meshes
  /\ params \in P
  /\ U \in [0..(mesh.num_elems - 1) -> ElemStates]
  /\ R = None
  /\ Rarg = None
  /\ order \in Orders
  /\ pc = "idle"
  /\ visited = NoneVisited
  /\ trace = <<>>
  /\ ncalls = 0
  /\ fluxLog = <<>>
  /\ lastIFace = -1
  /\ int_face_helpers = None
  /\ solver = None
  /\ nonfinite = None
  /\ adaptation = None
  /\ user_adaptation = None

Init == InitWith(Params, {PhaseOrder})

calculate_residual ==
  /\ pc = "idle"
  /\ ncalls < MaxCalls
  /\ Rarg' = R
  /\ R' = calculate_residual_init(U, R)
  /\ pc' = order[1]
  /\ visited' = NoneVisited
  /\ trace' = <<"zero">>
  /\ ncalls' = ncalls + 1
  /\ fluxLog' = <<>>
  /\ lastIFace' = -1
  /\ UNCHANGED <<mesh, params, U, order>>
  /\ UNCHANGED others

BFaceStep(ibface) ==
  /\ pc = "bfaces"
  /\ ibface \in PhaseItems("bfaces") \ visited.bfaces
  /\ LET elem == mesh.boundary_faces[ibface].elem_ID
     IN R' = [R EXCEPT ![elem] =
                get_boundary_face_residual(ibface, U[elem], R[elem])]
  /\ visited' = [visited EXCEPT !.bfaces = @ \cup {ibface}]
  /\ trace' = Append(trace, "bface")
  /\ UNCHANGED <<mesh, params, U, Rarg, order, pc, ncalls, fluxLog,
                 lastIFace>>
  /\ UNCHANGED others

ElemStep(elem) ==
  /\ pc = "elems"
  /\ elem \in PhaseItems("elems") \ visited.elems
  /\ R' = [R EXCEPT ![elem] = get_element_residual(elem, U[elem], R[elem])]
  /\ visited' = [visited EXCEPT !.elems = @ \cup {elem}]
  /\ trace' = Append(trace, "elem")
  /\ UNCHANGED <<mesh, params, U, Rarg, order, pc, ncalls, fluxLog,
                 lastIFace>>
  /\ UNCHANGED others

IFaceStepOf(iiface) ==
  /\ pc = "ifaces"
  /\ iiface \in PhaseItems("ifaces") \ visited.ifaces
  /\ LET res == get_interior_face_residual(iiface, U, R)
     IN /\ R' = res.R
        /\ fluxLog' = res.calls
  /\ lastIFace' = iiface
  /\ visited' = [visited EXCEPT !.ifaces = @ \cup {iiface}]
  /\ trace' = Append(trace, "iface")
  /\ UNCHANGED <<mesh, params, U, Rarg, order, pc, ncalls>>
  /\ UNCHANGED others

\* one iteration of each loop of the code, in range order
calculate_residual_bfaces == BFaceStep(NextInRange("bfaces"))

calculate_residual_elems == ElemStep(NextInRange("elems"))

calculate_residual_ifaces == IFaceStepOf(NextInRange("ifaces"))

\* a loop of calculate_residual is exhausted: go on to the next call, or return
PhaseDone ==
  /\ pc \in Phases
  /\ visited[pc] = PhaseItems(pc)
  /\ pc' = PhaseAfter(order, pc)
  /\ UNCHANGED <<mesh, params, U, R, Rarg, order, visited, trace, ncalls,
                 fluxLog, lastIFace>>
  /\ UNCHANGED others

\* the time loop evaluates the residual again, with the state of the next
\* step and the residual array of the previous evaluation
TakeTimeStep ==
  /\ pc = "done"
  /\ ncalls < MaxCalls
  /\ U' = NextInput(U)
  /\ pc' = "idle"
  /\ UNCHANGED <<mesh, params, R, Rarg, order, visited, trace, ncalls,
                 fluxLog, lastIFace>>
  /\ UNCHANGED others

Next ==
  \/ calculate_residual
  \/ calculate_residual_bfaces
  \/ calculate_residual_elems
  \/ calculate_residual_ifaces
  \/ PhaseDone
  \/ TakeTimeStep

Spec == Init /\ [][Next]_vars

\* --------------------------------------------------- the loops in any order
\* calculate_residual_bfaces, _elems and _ifaces called in any order after
\* the zeroing, each visiting its faces or elements in any order
Permutations3 ==
  {o \in [1..3 -> Phases] : \A i \in 1..3 : \A j \in 1..3 :
                               i # j => o[i] # o[j]}

ParamsAnyOrder ==
  {p \in Params : p.ConvFluxSwitch /\ p.SourceSwitch /\ p.nu # 0 /\ p.c = 1}

InitAnyOrder == InitWith(ParamsAnyOrder, Permutations3)

AnyBFace == \E ibface \in DOMAIN mesh.boundary_faces : BFaceStep(ibface)

AnyElem == \E elem \in 0..(mesh.num_elems - 1) : ElemStep(elem)

AnyIFace == \E iiface \in DOMAIN mesh.interior_faces : IFaceStepOf(iiface)

NextAnyOrder ==
  \/ calculate_residual
  \/ AnyBFace
  \/ AnyElem
  \/ AnyIFace
  \/ PhaseDone

SpecAnyOrder == InitAnyOrder /\ [][NextAnyOrder]_vars

\* ------------------------------------------------------------------- types
TypeOK ==
  /\ pc \in {"idle", "done"} \cup Phases
  /\ ncalls \in 0..MaxCalls
  /\ R # None => DOMAIN R = DOMAIN U

\* ---------------------------------------------------------- shared notions
\* one interior face is being assembled by this step
IFaceStep == pc = "ifaces" /\ visited'.ifaces # visited.ifaces

\* what this step adds to the residual of element e
Delta(e) == [b \in Basis |-> R'[e][b] - R[e][b]]

\* the face basis values of either side sum to one at every face point
PartitionOfUnity ==
  \A f \in 0..(NFACES - 1) : \A q \in QuadFace :
    /\ SumOver(faces_to_basisL[f][q], Basis) = 1
    /\ SumOver(faces_to_basisR[f][q], Basis) = 1

\* ----------------------------------------------------------------------- C1
\* C1 as stated: assembling an interior face adds to the left element's
\* residual and to the right element's residual two arrays whose sum is zero.
C1_ContributionsCancel ==
  [][IFaceStep =>
       LET f == mesh.interior_faces[lastIFace']
       IN f.elemL_ID # f.elemR_ID =>
            \A b \in Basis :
              Delta(f.elemL_ID)[b] + Delta(f.elemR_ID)[b] = 0]_vars

\* C1 amended: with a basis whose face values sum to one (partition of
\* unity), what assembling an interior face adds to the left element's
\* residual and to the right element's residual, summed over the basis
\* functions, is zero for any numerical flux.
C1_FaceConservation ==
  [][IFaceStep /\ PartitionOfUnity =>
       LET f == mesh.interior_faces[lastIFace']
       IN IF f.elemL_ID # f.elemR_ID
          THEN SumOver(Delta(f.elemL_ID), Basis)
                 + SumOver(Delta(f.elemR_ID), Basis) = 0
          ELSE SumOver(Delta(f.elemL_ID), Basis) = 0]_vars

\* an interior face between two different elements has been assembled with
\* a non-zero numerical flux and a partition-of-unity basis
C1_Witness ==
  /\ lastIFace >= 0
  /\ PartitionOfUnity
  /\ fluxLog # <<>>
  /\ fluxLog[1].Fq[0] # 0
  /\ mesh.interior_faces[lastIFace].elemL_ID
       # mesh.interior_faces[lastIFace].elemR_ID

\* ----------------------------------------------------------------------- C2
\* what C2 says of the step that assembles one interior face
OneFluxBothSides ==
  LET f == mesh.interior_faces[lastIFace']
      bL == faces_to_basisL[f.faceL_ID]
      bR == faces_to_basisR[f.faceR_ID]
      call == fluxLog'[1]
      IL == calculate_inviscid_flux_boundary_integral(
              bL, face_quad_wts, call.Fq)
      IR == calculate_inviscid_flux_boundary_integral(
              bR, face_quad_wts, call.Fq)
  IN /\ Len(fluxLog') = 1
     /\ call.UqL = evaluate_state(U[f.elemL_ID], bL)
     /\ call.UqR = evaluate_state(U[f.elemR_ID], bR)
     /\ call.normals = calculate_normals(f.elemL_ID, f.faceL_ID)
     /\ call.Fq = get_conv_flux_numerical(call.UqL, call.UqR, call.normals)
     /\ \A b \in Basis :
          IF f.elemL_ID # f.elemR_ID
          THEN /\ Delta(f.elemL_ID)[b] = -IL[b]
               /\ Delta(f.elemR_ID)[b] = IR[b]
          ELSE Delta(f.elemL_ID)[b] = IR[b] - IL[b]

\* C2 as stated: assembling one interior face evaluates the numerical flux
\* exactly once, from the left state, the right state and the left element's
\* normal, and uses that one flux array for both sides, subtracted on the
\* left and added on the right.
C2_AlwaysOneFlux ==
  [][IFaceStep => OneFluxBothSides]_vars

\* C2 amended: when ConvFluxSwitch is True, assembling one interior face
\* evaluates the numerical flux exactly once, from the left state and the
\* right state at the face points and the normal of the left element; the
\* contraction of that one flux array with the left face basis is subtracted
\* from the left element's residual and its contraction with the right face
\* basis is added to the right element's residual.  When ConvFluxSwitch is
\* False the flux is not evaluated and no residual changes.
C2_SingleFluxBothSides ==
  [][IFaceStep =>
       IF params.ConvFluxSwitch
       THEN OneFluxBothSides
       ELSE fluxLog' = <<>> /\ R' = R]_vars

\* an interior face whose left element lies on the right (normal -1) has been
\* assembled from two different face states with a non-zero flux
C2_Witness ==
  /\ lastIFace >= 0
  /\ Len(fluxLog) = 1
  /\ fluxLog[1].UqL[0] # fluxLog[1].UqR[0]
  /\ fluxLog[1].normals[0] = -1
  /\ fluxLog[1].Fq[0] # 0

\* ----------------------------------------------------------------------- C3
IsZero(Rarr) == \A e \in DOMAIN Rarr : \A b \in DOMAIN Rarr[e] : Rarr[e][b] = 0

\* C3: calculate_residual gives the residual the shape of U (also when R is
\* None), every entry is zero before the first contribution is accumulated,
\* and the returned residual is the one assembled from zeros for the state U
\* of this call, whatever R held before.
C3_ResidualFromStateOnly ==
  /\ pc # "idle" =>
       /\ DOMAIN R = DOMAIN U
       /\ \A e \in DOMAIN U : DOMAIN R[e] = DOMAIN U[e]
  /\ (pc \in Phases /\ visited = NoneVisited) => IsZero(R)
  /\ pc = "done" => R = AssembledResidual(U)

\* a call has returned that was given a residual array with non-zero entries
\* left by the previous call, and returns a different residual
C3_Witness ==
  /\ pc = "done"
  /\ ncalls >= 2
  /\ Rarg # None
  /\ ~IsZero(Rarg)
  /\ R # Rarg

\* ----------------------------------------------------------------------- C4
Rank(x) ==
  IF x = "zero" THEN 0
  ELSE IF x = "bface" THEN 1
  ELSE IF x = "elem" THEN 2
  ELSE 3

Count(x) == Cardinality({i \in DOMAIN trace : trace[i] = x})

\* C4: within one call the residual is zeroed first, then all boundary faces
\* are assembled, then all elements, then all interior faces; a phase starts
\* only when the previous one has covered every face or element.
C4_PhaseOrder ==
  /\ pc # "idle" => (Len(trace) >= 1 /\ trace[1] = "zero")
  /\ \A i \in DOMAIN trace : \A j \in DOMAIN trace :
       i < j => (Rank(trace[i]) <= Rank(trace[j]) /\ trace[j] # "zero")
  /\ Count("elem") > 0 => Count("bface") = NumBFaces
  /\ Count("iface") > 0 => Count("elem") = mesh.num_elems
  /\ pc = "done" =>
       /\ Count("bface") = NumBFaces
       /\ Count("elem") = mesh.num_elems
       /\ Count("iface") = mesh.num_interior_faces

\* a call has returned after assembling boundary faces, two elements and an
\* interior face
C4_Witness ==
  /\ pc = "done"
  /\ Count("bface") = 2
  /\ Count("elem") = 2
  /\ Count("iface") >= 1

ElemStepTaken == pc = "elems" /\ visited'.elems # visited.elems

NewElem == CHOOSE e \in visited'.elems : e \notin visited.elems

FluxIntegralOf(e) ==
  calculate_inviscid_flux_volume_integral(
    e, get_conv_flux_interior(evaluate_state(U[e], basis_val)))

SourceIntegralOf(e) ==
  calculate_source_term_integral(
    e, eval_source_terms(evaluate_state(U[e], basis_val)))

\* C6: with ConvFluxSwitch False no boundary face, interior face or element
\* flux term changes the residual; with SourceSwitch False no source term
\* changes it; with both False the returned residual has every entry defined
\* and equal to zero.
C6_DisabledTermsContributeZero ==
  /\ [][/\ (~params.ConvFluxSwitch /\ pc \in {"bfaces", "ifaces"}) => R' = R
        /\ (ElemStepTaken /\ ~params.ConvFluxSwitch /\ ~params.SourceSwitch)
             => R' = R
        /\ (ElemStepTaken /\ ~params.ConvFluxSwitch /\ params.SourceSwitch)
             => R' = [R EXCEPT ![NewElem] = Plus(@, SourceIntegralOf(NewElem))]
        /\ (ElemStepTaken /\ params.ConvFluxSwitch /\ ~params.SourceSwitch)
             => R' = [R EXCEPT ![NewElem] = Plus(@, FluxIntegralOf(NewElem))]
       ]_vars
  /\ [](pc = "done" /\ ~params.ConvFluxSwitch /\ ~params.SourceSwitch =>
          /\ DOMAIN R = DOMAIN U
          /\ \A e \in DOMAIN U : DOMAIN R[e] = Basis
          /\ IsZero(R))

\* a call has returned with both switches off on a mesh with boundary faces
\* and an interior face, for a state whose flux and source would not be zero
C6_Witness ==
  /\ pc = "done"
  /\ ~params.ConvFluxSwitch
  /\ ~params.SourceSwitch
  /\ NumBFaces = 2
  /\ mesh.num_interior_faces = 1
  /\ \A e \in DOMAIN U : U[e][0] = 1
  /\ params.c # 0
  /\ params.nu # 0

\* ----------------------------------------------------------------------- C7
\* C7: on a mesh of a single element with zero flux (wave speed 0: the
\* volume, numerical and boundary fluxes vanish) and zero source (nu = 0),
\* calculate_residual returns the zero array for every state.
C7_SingleElementZero ==
  (/\ pc = "done"
   /\ mesh.num_elems = 1
   /\ params.c = 0
   /\ params.ConvFluxNumerical = "ExactLinearFlux"
   /\ params.nu = 0)
  => (DOMAIN R = {0} /\ IsZero(R))

\* a call on a single element with boundary faces has returned with both
\* terms enabled, zero flux and zero source, for a state that is not zero
C7_Witness ==
  /\ pc = "done"
  /\ mesh.num_elems = 1
  /\ NumBFaces = 2
  /\ params.ConvFluxSwitch
  /\ params.SourceSwitch
  /\ params.c = 0
  /\ params.nu = 0
  /\ U[0][0] # 0

\* ----------------------------------------------------------------------- C8
\* the element's state is the constant 1 at every quadrature point
UnitState(e) == evaluate_state(U[e], basis_val) = [q \in QuadElem |-> 1]

\* a single element with f(u) = u (wave speed 1), no source, unit state
SingleElementUnitFlux ==
  /\ mesh.num_elems = 1
  /\ params.ConvFluxSwitch
  /\ params.c = 1
  /\ (~params.SourceSwitch \/ params.nu = 0)
  /\ UnitState(0)

\* C8 as stated: for this element the volume-integral contribution to the
\* residual equals 0.
C8_VolumeContributionZero ==
  [][ElemStepTaken /\ SingleElementUnitFlux =>
       \A b \in Basis : Delta(0)[b] = 0]_vars

\* C8 amended: for this element the volume-integral contribution is the flux
\* integrated against each basis gradient: -1 and +1 for the two nodal
\* (Lagrange) basis functions, 0 and 2 for the two modal (Legendre) ones; it
\* sums to 0 over the basis functions of the nodal basis only.  (Residual
\* entries are stored in units of 1/2.)
C8_VolumeContribution ==
  [][ElemStepTaken /\ SingleElementUnitFlux =>
       /\ params.InterpBasis = "LagrangeSeg"
            => (Delta(0)[0] = -2 /\ Delta(0)[1] = 2)
       /\ params.InterpBasis = "LegendreSeg"
            => (Delta(0)[0] = 0 /\ Delta(0)[1] = 4)]_vars

\* the element loop has run on a single Lagrange element with unit state,
\* f(u) = u and no source
C8_Witness ==
  /\ mesh.num_elems = 1
  /\ params.ConvFluxSwitch
  /\ params.c = 1
  /\ ~params.SourceSwitch
  /\ params.InterpBasis = "LagrangeSeg"
  /\ UnitState(0)
  /\ visited.elems = {0}
  /\ pc = "elems"

\* ----------------------------------------------------------------------- C9
ExactFluxStep ==
  /\ IFaceStep
  /\ params.ConvFluxSwitch
  /\ params.ConvFluxNumerical = "ExactLinearFlux"

\* the numerical flux of the step is the flux of the state on the side the
\* wave comes from: the left state exactly when the projected speed is >= 0
UpwindRule ==
  LET call == fluxLog'[1]
  IN \A q \in QuadFace :
       call.Fq[q] = IF params.c * call.normals[q] >= 0
                    THEN params.c * call.normals[q] * call.UqL[q]
                    ELSE params.c * call.normals[q] * call.UqR[q]

\* left state 1, right state 0, the left element on the left (normal +1),
\* positive wave speed, two different elements
UnitJump ==
  LET call == fluxLog'[1]
      f == mesh.interior_faces[lastIFace']
  IN /\ f.elemL_ID # f.elemR_ID
     /\ params.c > 0
     /\ \A q \in QuadFace :
          call.normals[q] = 1 /\ call.UqL[q] = 1 /\ call.UqR[q] = 0

\* the one flux value Fv leaves the left element and enters the right one
Transfers(Fv) ==
  LET f == mesh.interior_faces[lastIFace']
      bL == faces_to_basisL[f.faceL_ID]
      bR == faces_to_basisR[f.faceR_ID]
  IN \A b \in Basis :
       /\ Delta(f.elemL_ID)[b] = -(2 * bL[0][b] * Fv)
       /\ Delta(f.elemR_ID)[b] = 2 * bR[0][b] * Fv

\* C9 as stated: the upwind flux takes the left state when the projected
\* wave speed is >= 0 and the right state otherwise; with uL = 1, uR = 0 and
\* positive wave speed the numerical flux equals 1 and is subtracted from the
\* left residual and added to the right residual with equal magnitude.
C9_UnitJumpFluxOne ==
  [][ExactFluxStep =>
       /\ UpwindRule
       /\ UnitJump => (fluxLog'[1].Fq[0] = 1 /\ Transfers(1))]_vars

\* C9 amended: the upwind flux takes the left state when the projected wave
\* speed is >= 0 and the right state otherwise; with uL = 1, uR = 0 and
\* positive wave speed c the numerical flux equals c (1 for unit wave speed)
\* and is subtracted from the left residual and added to the right residual
\* with equal magnitude.
C9_UpwindFlux ==
  [][ExactFluxStep =>
       /\ UpwindRule
       /\ UnitJump => (fluxLog'[1].Fq[0] = params.c
                        /\ Transfers(params.c))]_vars

\* the face between a left element of state 1 and a right element of state 0
\* has been assembled with the upwind flux and wave speed 2
C9_Witness ==
  /\ lastIFace >= 0
  /\ pc = "ifaces"
  /\ params.ConvFluxNumerical = "ExactLinearFlux"
  /\ params.c = 2
  /\ fluxLog # <<>>
  /\ fluxLog[1].normals[0] = 1
  /\ fluxLog[1].UqL[0] = 1
  /\ fluxLog[1].UqR[0] = 0
  /\ fluxLog[1].Fq[0] = 2
  /\ mesh.interior_faces[lastIFace].elemL_ID
       # mesh.interior_faces[lastIFace].elemR_ID

\* ---------------------------------------------------------------------- C10
\* the basis values sum to one at every element and face quadrature point
BasisPartitionOfUnity ==
  /\ PartitionOfUnity
  /\ \A q \in QuadElem : SumOver(basis_val[q], Basis) = 1

\* the state has the same value at every quadrature point of every element
ConstantState ==
  \E v \in 0..(MaxU + 1) :
    \A e \in DOMAIN U :
      evaluate_state(U[e], basis_val) = [q \in QuadElem |-> v]

TotalResidual ==
  SumOver([e \in DOMAIN R |-> SumOver(R[e], Basis)], DOMAIN R)

\* C10 as stated: on a periodic mesh without boundary faces, with a constant
\* state and a partition-of-unity basis, the residual summed over all
\* elements and basis functions is zero.
C10_PeriodicSumZero ==
  (/\ pc = "done"
   /\ mesh.periodic
   /\ NumBFaces = 0
   /\ BasisPartitionOfUnity
   /\ ConstantState)
  => TotalResidual = 0

\* C10 amended: the same, when no source term is active (SourceSwitch False
\* or a source that is zero): the source integral of a constant state does
\* not sum to zero.
C10_PeriodicConservation ==
  (/\ pc = "done"
   /\ mesh.periodic
   /\ NumBFaces = 0
   /\ BasisPartitionOfUnity
   /\ ConstantState
   /\ (~params.SourceSwitch \/ params.nu = 0))
  => TotalResidual = 0

\* a call has returned on a periodic mesh of two elements with the constant
\* state 1, a partition-of-unity basis, a non-zero flux and no source, and
\* the residual has entries that are not zero
C10_Witness ==
  /\ pc = "done"
  /\ mesh.periodic
  /\ mesh.num_elems = 2
  /\ NumBFaces = 0
  /\ BasisPartitionOfUnity
  /\ \A e \in DOMAIN U : evaluate_state(U[e], basis_val)
                           = [q \in QuadElem |-> 1]
  /\ params.ConvFluxSwitch
  /\ ~params.SourceSwitch
  /\ ~IsZero(R)

\* ================================================ 2-D interior-face helpers
\* InteriorFaceHelpers.compute_helpers on meshes of two order-1
\* quadrilaterals that share an edge.  Reference coordinates are integers;
\* basis values and physical coordinates are stored in units of 1/4, normals
\* in units of 1/2.
QuadNFACES == 4
QuadNB == 4
MaxFacePts == 3

QuadFaces == 0..(QuadNFACES - 1)
QuadBasis == 0..(QuadNB - 1)

\* reference nodes of QuadShape, first coordinate running fastest
QuadRefNode(k) == <<IF k % 2 = 0 THEN -1 ELSE 1, IF k < 2 THEN -1 ELSE 1>>

\* the reference nodes in counterclockwise order
QuadCCW == [k \in 0..3 |-> IF k = 2 THEN 3 ELSE IF k = 3 THEN 2 ELSE k]

\* local nodes of local face f, in the counterclockwise direction
QuadFaceNodes(f) == <<QuadCCW[f], QuadCCW[(f + 1) % 4]>>

\* the element reference point of the point t of local face face_ID
get_elem_ref_from_face_ref(face_ID, t) ==
  LET a == QuadRefNode(QuadFaceNodes(face_ID)[1])
      b == QuadRefNode(QuadFaceNodes(face_ID)[2])
  IN <<((1 - t) * a[1] + (1 + t) * b[1]) \div 2,
       ((1 - t) * a[2] + (1 + t) * b[2]) \div 2>>

\* values of the order-1 basis at a reference point, in units of 1/4
QuadValues(basis, x) ==
  IF basis = "LagrangeQuad"
  THEN [k \in QuadBasis |->
          (1 + QuadRefNode(k)[1] * x[1]) * (1 + QuadRefNode(k)[2] * x[2])]
  ELSE [k \in QuadBasis |->
          4 * (IF k % 2 = 0 THEN 1 ELSE x[1]) * (IF k < 2 THEN 1 ELSE x[2])]

\* basis.get_basis_face_val_grads(mesh, face_ID, quad_pts, get_val=True):
\* basis.basis_val afterwards
QuadFaceVals(basis, face_ID, pts) ==
  [q \in DOMAIN pts |->
     QuadValues(basis, get_elem_ref_from_face_ref(face_ID, pts[q]))]

\* physical coordinates of a reference point of an element, in units of 1/4
ref_to_phys(m, elem_ID, x) ==
  LET g == QuadValues("LagrangeQuad", x)
      X == [k \in QuadBasis |-> m.node_coords[m.elem_to_node_IDs[elem_ID][k]]]
  IN <<SumOver([k \in QuadBasis |-> g[k] * X[k][1]], QuadBasis),
       SumOver([k \in QuadBasis |-> g[k] * X[k][2]], QuadBasis)>>

\* mesh.gbasis.calculate_normals(mesh, elem_ID, face_ID, quad_pts): the
\* outward normal of a straight face, of length half the face's length
calculate_normals_2D(m, elem_ID, face_ID, pts) ==
  LET a == m.node_coords[m.elem_to_node_IDs[elem_ID][QuadFaceNodes(face_ID)[1]]]
      b == m.node_coords[m.elem_to_node_IDs[elem_ID][QuadFaceNodes(face_ID)[2]]]
  IN [q \in DOMAIN pts |-> <<b[2] - a[2], a[1] - b[1]>>]

\* -- meshes: nodes 0 1 2 on the lower row, 3 4 5 on the upper row; element 0
\* has the corners 0 1 4 3, element 1 the corners 1 2 5 4 (counterclockwise)
QuadGeometries ==
  { <<<<0, 0>>, <<2, 0>>, <<4, 0>>, <<0, 2>>, <<2, 2>>, <<4, 2>>>>,
    <<<<0, 0>>, <<2, 0>>, <<5, 0>>, <<0, 2>>, <<3, 2>>, <<5, 3>>>> }

QuadCorners == <<<<0, 1, 4, 3>>, <<1, 2, 5, 4>>>>

\* local node numbering of an element whose first reference corner is its
\* r-th corner
QuadNodeIDs(e, r) ==
  [k \in QuadBasis |->
     LET pos == CHOOSE j \in 0..3 : QuadCCW[j] = k
     IN QuadCorners[e + 1][((pos + r) % 4) + 1]]

\* the local face of element e that joins the global nodes 1 and 4
SharedFace(ids) ==
  CHOOSE f \in QuadFaces :
    {ids[QuadFaceNodes(f)[1]], ids[QuadFaceNodes(f)[2]]} = {1, 4}

mesh_2D(geom, r0, r1, eL) ==
  LET ids == [e \in 0..1 |-> QuadNodeIDs(e, IF e = 0 THEN r0 ELSE r1)]
      coords == [i \in 0..5 |-> geom[i + 1]]
  IN [node_coords |-> coords,
      elem_to_node_IDs |-> ids,
      num_interior_faces |-> 1,
      interior_faces |->
        [i \in {0} |-> [elemL_ID |-> eL, faceL_ID |-> SharedFace(ids[eL]),
                        elemR_ID |-> 1 - eL,
                        faceR_ID |-> SharedFace(ids[1 - eL])]]]

Meshes2D ==
  {mesh_2D(g, r0, r1, eL) :
     g \in QuadGeometries, r0 \in 0..3, r1 \in 0..3, eL \in 0..1}

\* face quadrature points: the increasing points of a rule that is symmetric
\* about the centre of the reference face (Gauss-Legendre, Gauss-Lobatto)
FacePointSets ==
  {p \in UNION {[0..(n - 1) -> -1..1] : n \in 1..MaxFacePts} :
     /\ \A q \in DOMAIN p : q + 1 \in DOMAIN p => p[q] < p[q + 1]
     /\ \A q \in DOMAIN p : p[Cardinality(DOMAIN p) - 1 - q] = -p[q]}

ZeroTable(pts) == [f \in QuadFaces |-> [q \in DOMAIN pts |->
                     [k \in QuadBasis |-> 0]]]

\* one pass of "for face_ID in range(nfaces_per_elem)": the left table from
\* the points, the right table from the points in reversed order
faces_to_basisL_2D(h, face_ID) ==
  [h.faces_to_basisL EXCEPT ![face_ID] =
     QuadFaceVals(h.basis, face_ID, h.quad_pts)]

faces_to_basisR_2D_same_order(h, face_ID) ==
  [h.faces_to_basisR EXCEPT ![face_ID] =
     QuadFaceVals(h.basis, face_ID, h.quad_pts)]

faces_to_basisR_2D(h, face_ID) ==
  [h.faces_to_basisR EXCEPT ![face_ID] =
     QuadFaceVals(h.basis, face_ID, Reversed(h.quad_pts))]

\* one pass of "for interior_face in mesh.interior_faces"
normals_ifaces_2D_from_right(h, i) ==
  [h.normals_ifaces EXCEPT ![i] =
     calculate_normals_2D(h.mesh, h.mesh.interior_faces[i].elemR_ID,
                          h.mesh.interior_faces[i].faceR_ID, h.quad_pts)]

normals_ifaces_2D(h, i) ==
  [h.normals_ifaces EXCEPT ![i] =
     calculate_normals_2D(h.mesh, h.mesh.interior_faces[i].elemL_ID,
                          h.mesh.interior_faces[i].faceL_ID, h.quad_pts)]

ResidualIdle ==
  /\ mesh = mesh_1D(1, FALSE, FALSE)
  /\ params \in {p \in Params : p.ConvFluxSwitch /\ p.SourceSwitch
                                 /\ p.c = 1 /\ p.nu = 0
                                 /\ p.InterpBasis = "LagrangeSeg"
                                 /\ p.ConvFluxNumerical = "ExactLinearFlux"}
  /\ U = [e \in {0} |-> [b \in Basis |-> 0]]
  /\ R = None
  /\ Rarg = None
  /\ order = PhaseOrder
  /\ pc = "idle"
  /\ visited = NoneVisited
  /\ trace = <<>>
  /\ ncalls = 0
  /\ fluxLog = <<>>
  /\ lastIFace = -1

\* InteriorFaceHelpers.__init__, get_gaussian_quadrature and the allocations
InitHelpers ==
  /\ ResidualIdle
  /\ solver = None
  /\ nonfinite = None
  /\ adaptation = None
  /\ user_adaptation = None
  /\ \E m \in Meshes2D, b \in {"LagrangeQuad", "LegendreQuad"},
        pts \in FacePointSets :
       int_face_helpers =
         [mesh |-> m, basis |-> b, quad_pts |-> pts,
          faces_to_basisL |-> ZeroTable(pts),
          faces_to_basisR |-> ZeroTable(pts),
          normals_ifaces |-> [i \in {0} |-> [q \in DOMAIN pts |-> <<0, 0>>]],
          face_ID |-> 0, i |-> 0, pc |-> "faces"]

get_basis_and_geom_data_faces ==
  /\ int_face_helpers # None
  /\ int_face_helpers.pc = "faces"
  /\ LET h == int_face_helpers
     IN IF h.face_ID < QuadNFACES
        THEN int_face_helpers' =
               [h EXCEPT !.faces_to_basisL = faces_to_basisL_2D(h, h.face_ID),
                         !.faces_to_basisR = faces_to_basisR_2D(h, h.face_ID),
                         !.face_ID = @ + 1]
        ELSE int_face_helpers' = [h EXCEPT !.pc = "normals"]
  /\ UNCHANGED not_helpers

get_basis_and_geom_data_normals ==
  /\ int_face_helpers # None
  /\ int_face_helpers.pc = "normals"
  /\ LET h == int_face_helpers
     IN IF h.i < h.mesh.num_interior_faces
        THEN int_face_helpers' =
               [h EXCEPT !.normals_ifaces = normals_ifaces_2D(h, h.i),
                         !.i = @ + 1]
        ELSE int_face_helpers' = [h EXCEPT !.pc = "done"]
  /\ UNCHANGED not_helpers

NextHelpers ==
  \/ get_basis_and_geom_data_faces
  \/ get_basis_and_geom_data_normals

SpecHelpers == InitHelpers /\ [][NextHelpers]_vars

\* ---------------------------------------------------------------------- C11
\* coefficients, in the basis of the helpers, of the coordinate field of an
\* element (the nodal values for the nodal basis, their modal transform for
\* the modal one, in units of 1/4)
CoordCoeffs(h, elem_ID, d) ==
  LET X == [k \in QuadBasis |->
              h.mesh.node_coords[h.mesh.elem_to_node_IDs[elem_ID][k]][d]]
  IN IF h.basis = "LagrangeQuad"
     THEN [k \in QuadBasis |-> 4 * X[k]]
     ELSE [k \in QuadBasis |->
             SumOver([j \in QuadBasis |->
                        X[j] * (IF k % 2 = 0 THEN 1 ELSE QuadRefNode(j)[1])
                             * (IF k < 2 THEN 1 ELSE QuadRefNode(j)[2])],
                     QuadBasis)]

\* the physical point at which row q of a face table evaluates a field
PointOfRow(h, elem_ID, row) ==
  <<SumOver([k \in QuadBasis |-> row[k] * CoordCoeffs(h, elem_ID, 1)[k]],
            QuadBasis),
    SumOver([k \in QuadBasis |-> row[k] * CoordCoeffs(h, elem_ID, 2)[k]],
            QuadBasis)>>

NumFacePts == Cardinality(DOMAIN int_face_helpers.quad_pts)

\* C11: for every local face f already tabulated and every quadrature index
\* q, faces_to_basisR[f][q] equals faces_to_basisL[f][nq-1-q]; and once the
\* tables are complete, for every interior face the left table's row q (on
\* the left element's face) and the right table's row q (on the right
\* element's face) evaluate at the same physical point.
C11_RightTableReversed ==
  int_face_helpers # None =>
    LET h == int_face_helpers
    IN /\ \A f \in QuadFaces : \A q \in DOMAIN h.quad_pts :
            f < h.face_ID =>
              h.faces_to_basisR[f][q] = h.faces_to_basisL[f][NumFacePts - 1 - q]
       /\ h.pc # "faces" =>
            \A i \in DOMAIN h.mesh.interior_faces : \A q \in DOMAIN h.quad_pts :
              LET F == h.mesh.interior_faces[i]
              IN PointOfRow(h, F.elemL_ID, h.faces_to_basisL[F.faceL_ID][q])
                   = PointOfRow(h, F.elemR_ID,
                                h.faces_to_basisR[F.faceR_ID][q])

\* the tables are complete for the two face points -1 and 1, the rows of the
\* left table at the two points differ, and the shared face is a slanted edge
C11_Witness ==
  /\ int_face_helpers # None
  /\ int_face_helpers.pc = "done"
  /\ int_face_helpers.quad_pts = [q \in 0..1 |-> 2 * q - 1]
  /\ int_face_helpers.mesh.node_coords[4] = <<3, 2>>
  /\ LET F == int_face_helpers.mesh.interior_faces[0]
     IN int_face_helpers.faces_to_basisL[F.faceL_ID][0]
          # int_face_helpers.faces_to_basisL[F.faceL_ID][1]

\* ---------------------------------------------------------------------- C12
Dot(a, b) == a[1] * b[1] + a[2] * b[2]

Neg(a) == <<-a[1], -a[2]>>

\* n points out of element elem_ID at its local face face_ID
Outward(m, elem_ID, face_ID, n) ==
  LET centre == ref_to_phys(m, elem_ID, <<0, 0>>)
      onface == ref_to_phys(m, elem_ID,
                            get_elem_ref_from_face_ref(face_ID, 0))
  IN Dot(n, <<onface[1] - centre[1], onface[2] - centre[2]>>) > 0

\* C12: once the helpers are complete, the cached normal of every interior
\* face is the normal computed from its left element and left local face,
\* points out of the left element, and at every quadrature point equals the
\* negated normal computed from its right element and right local face at
\* the corresponding (reversed) point, which points out of the right element.
C12_NormalFromLeft ==
  (int_face_helpers # None /\ int_face_helpers.pc = "done") =>
    LET h == int_face_helpers
    IN \A i \in DOMAIN h.mesh.interior_faces : \A q \in DOMAIN h.quad_pts :
         LET F == h.mesh.interior_faces[i]
             nL == calculate_normals_2D(h.mesh, F.elemL_ID, F.faceL_ID,
                                        h.quad_pts)
             nR == calculate_normals_2D(h.mesh, F.elemR_ID, F.faceR_ID,
                                        Reversed(h.quad_pts))
         IN /\ h.normals_ifaces[i][q] = nL[q]
            /\ Outward(h.mesh, F.elemL_ID, F.faceL_ID, h.normals_ifaces[i][q])
            /\ h.normals_ifaces[i][q] = Neg(nR[q])
            /\ Outward(h.mesh, F.elemR_ID, F.faceR_ID, nR[q])

\* the helpers are complete for a slanted shared edge whose left element is
\* the element on the right, with three face points
C12_Witness ==
  /\ int_face_helpers # None
  /\ int_face_helpers.pc = "done"
  /\ int_face_helpers.mesh.node_coords[4] = <<3, 2>>
  /\ int_face_helpers.mesh.interior_faces[0].elemL_ID = 1
  /\ NumFacePts = 3
  /\ int_face_helpers.normals_ifaces[0][0] = <<-2, 1>>

\* ---------------------------------------------------------------------- C13
BFaceStepTaken == pc = "bfaces" /\ visited'.bfaces # visited.bfaces

NewBFace == CHOOSE j \in visited'.bfaces : j \notin visited.bfaces

\* the flux of the boundary condition registered under a group's name, from
\* the adjacent element's state at the face points
BoundaryFluxOf(j) ==
  LET bf == mesh.boundary_faces[j]
      UqI == evaluate_state(U[bf.elem_ID], faces_to_basis[bf.face_ID])
      n == calculate_normals(bf.elem_ID, bf.face_ID)
  IN IF bf.group = "Left"
     THEN get_conv_flux_numerical(UqI, [q \in QuadFace |-> 1], n)
     ELSE [q \in QuadFace |-> params.c * UqI[q] * n[q]]

\* the residual of the adjacent element loses the contracted boundary flux
SubtractsBoundaryFlux(j) ==
  LET bf == mesh.boundary_faces[j]
      I == calculate_inviscid_flux_boundary_integral(
             faces_to_basis[bf.face_ID], face_quad_wts, BoundaryFluxOf(j))
  IN \A b \in Basis : Delta(bf.elem_ID)[b] = -I[b]

OnlyAdjacentChanges(j) ==
  \A e \in DOMAIN R : e # mesh.boundary_faces[j].elem_ID => R'[e] = R[e]

\* C13 as stated: assembling a boundary face subtracts the contracted flux of
\* the boundary condition registered under the face's group name from the
\* residual of the adjacent element, and no other element's residual changes.
C13_AlwaysSubtracts ==
  [][BFaceStepTaken =>
       SubtractsBoundaryFlux(NewBFace) /\ OnlyAdjacentChanges(NewBFace)]_vars

\* C13 amended: when ConvFluxSwitch is True, assembling a boundary face
\* subtracts the contracted flux of the boundary condition registered under
\* the face's group name, computed from the adjacent element's state only,
\* from the residual of the adjacent element, and no other element's residual
\* changes; when ConvFluxSwitch is False no residual changes.
C13_BoundaryFaceFrame ==
  [][BFaceStepTaken =>
       IF params.ConvFluxSwitch
       THEN SubtractsBoundaryFlux(NewBFace) /\ OnlyAdjacentChanges(NewBFace)
       ELSE R' = R]_vars

\* the right boundary face of a two-element mesh has been assembled with
\* the modal basis and wave speed -1: the adjacent element's state is 2 at
\* the face, the other element's state is 0, and the extrapolated flux -2 is
\* not the flux -1 that the left group's condition would give
C13_Witness ==
  /\ pc = "bfaces"
  /\ visited.bfaces = {0, 1}
  /\ mesh.num_elems = 2
  /\ params.ConvFluxSwitch
  /\ params.c = -1
  /\ params.ConvFluxNumerical = "ExactLinearFlux"
  /\ params.InterpBasis = "LegendreSeg"
  /\ U[1] = [b \in Basis |-> 1]
  /\ U[0] = [b \in Basis |-> 0]
  /\ R[1] = [b \in Basis |-> 4]

\* ------------------------------------------------ matrices of small order
\* A matrix is a sequence of rows, a vector a sequence of numbers.
Rows(A) == 1..Len(A)
Cols(A) == 1..Len(A[1])

MatSub(A, B) == [i \in Rows(A) |-> [j \in Cols(A) |-> A[i][j] - B[i][j]]]

Scaled(k, A) == [i \in Rows(A) |-> [j \in Cols(A) |-> k * A[i][j]]]

Transposed(A) == [j \in Cols(A) |-> [i \in Rows(A) |-> A[i][j]]]

\* np.matmul of a matrix and a vector
MatVec(A, v) ==
  [i \in Rows(A) |-> SumOver([j \in Cols(A) |-> A[i][j] * v[j]], Cols(A))]

\* np.matmul of two matrices
MatMul(A, B) ==
  [i \in Rows(A) |->
     [j \in Cols(B) |->
        SumOver([k \in Cols(A) |-> A[i][k] * B[k][j]], Cols(A))]]

Identity(n) == [i \in 1..n |-> [j \in 1..n |-> IF i = j THEN 1 ELSE 0]]

\* tensor product; the index of the first factor runs slowest
Kron(A, B) ==
  LET p == Len(B)
      q == Len(B[1])
  IN [i \in 1..(Len(A) * p) |->
        [j \in 1..(Len(A[1]) * q) |->
           A[((i - 1) \div p) + 1][((j - 1) \div q) + 1]
             * B[((i - 1) % p) + 1][((j - 1) % q) + 1]]]

\* the rows r and the columns c of A, in order
Minor(A, r, c) == [i \in 1..Len(r) |-> [j \in 1..Len(c) |-> A[r[i]][c[j]]]]

Without(n, k) == [i \in 1..(n - 1) |-> IF i < k THEN i ELSE i + 1]

RECURSIVE Det(_)
Det(A) ==
  IF Len(A) = 1 THEN A[1][1]
  ELSE SumOver([j \in Rows(A) |->
                  (IF j % 2 = 1 THEN 1 ELSE -1) * A[1][j]
                    * Det(Minor(A, Without(Len(A), 1), Without(Len(A), j)))],
               Rows(A))

Cofactor(A, i, j) ==
  (IF (i + j) % 2 = 0 THEN 1 ELSE -1)
    * Det(Minor(A, Without(Len(A), i), Without(Len(A), j)))

\* np.linalg.inv of a matrix given in units of 1/den: the inverse, in units
\* of 1/unit
inv(A, den, unit) ==
  CHOOSE X \in {[i \in Rows(A) |->
                   [j \in Cols(A) |->
                      (den * unit * Cofactor(A, j, i)) \div d]] :
                  d \in {Det(A)}} : TRUE

RECURSIVE GCD(_, _)
GCD(a, b) == IF b = 0 THEN Abs(a) ELSE GCD(b, a % b)

RECURSIVE GCDOver(_, _)
GCDOver(v, k) == IF k > Len(v) THEN 0 ELSE GCD(v[k], GCDOver(v, k + 1))

\* the fraction num/den of a vector and a positive number, in lowest terms
Fraction(num, den) ==
  LET g == GCD(den, GCDOver(num, 1))
  IN [num |-> [i \in DOMAIN num |-> num[i] \div g], den |-> den \div g]

\* ------------------------------------------------- the space-time operators
\* The order-1 basis functions on [-1, 1] as polynomials a0 + a1 xi, in
\* units of 1/2; the space-time basis of a segment basis is its tensor
\* product with itself, the temporal index running slowest.
Poly1D(basis_name) ==
  IF basis_name = "LagrangeSeg" THEN <<<<1, -1>>, <<1, 1>>>>
  ELSE <<<<2, 0>>, <<0, 2>>>>

\* integral of phi_i phi_j over [-1, 1], in units of 1/3
Mass1D(basis_name) ==
  LET p == Poly1D(basis_name)
  IN [i \in 1..2 |-> [j \in 1..2 |->
        (6 * p[i][1] * p[j][1] + 2 * p[i][2] * p[j][2]) \div 4]]

\* integral of phi_i' phi_j over [-1, 1], in units of 1/2
Stiffness1D(basis_name) ==
  LET p == Poly1D(basis_name)
  IN [i \in 1..2 |-> [j \in 1..2 |-> p[i][2] * p[j][1]]]

\* phi_i at the end xi = s of the interval (s = -1 or 1), in units of 1/2
ValuesAtEnd(basis_name, s) ==
  LET p == Poly1D(basis_name)
  IN [i \in 1..2 |-> p[i][1] + s * p[i][2]]

\* the coefficients of the function that is constantly 1
ConstantOne(basis_name) ==
  IF basis_name = "LagrangeSeg" THEN <<1, 1>> ELSE <<1, 0>>

\* The matrices below are in units of 1/36.
\* get_temporal_flux_ader(mesh, basis_st, basis_st, ...): the space-time
\* basis against itself at the end of the slab
get_temporal_flux_ader_st(basis_name) ==
  LET v == ValuesAtEnd(basis_name, 1)
  IN Scaled(3, Kron([i \in 1..2 |-> [j \in 1..2 |-> v[i] * v[j]]],
                    Mass1D(basis_name)))

\* get_temporal_flux_ader(mesh, basis_st, basis, ...): the space-time basis
\* at the start of the slab against the spatial basis
get_temporal_flux_ader(basis_name) ==
  LET v == ValuesAtEnd(basis_name, -1)
  IN Scaled(6, Kron([i \in 1..2 |-> <<v[i]>>], Mass1D(basis_name)))

\* get_stiffness_matrix_ader(..., gradDir): the gradient of the test
\* function in time (gradDir = 1) or in space (gradDir = 0)
get_stiffness_matrix_ader(basis_name, dt, gradDir) ==
  IF gradDir = 1
  THEN Scaled(6, Kron(Stiffness1D(basis_name), Mass1D(basis_name)))
  ELSE Scaled(6, Kron(Mass1D(basis_name), Stiffness1D(basis_name)))

get_elem_mass_matrix_ader(basis_name) ==
  Scaled(4, Kron(Mass1D(basis_name), Mass1D(basis_name)))

\* K with the sign of the temporal stiffness flipped
calc_ader_matrices_K_sum(FTL, SMT) ==
  [i \in Rows(FTL) |-> [j \in Cols(FTL) |-> FTL[i][j] + SMT[i][j]]]

\* self.K = FTL - SMT
calc_ader_matrices_K(FTL, SMT) == MatSub(FTL, SMT)

\* ADEROperators.calc_ader_matrices; iK is kept in units of 1/4
calc_ader_matrices(m, basis_name, dt) ==
  LET FTL == get_temporal_flux_ader_st(basis_name)
      FTR == get_temporal_flux_ader(basis_name)
      SMT == get_stiffness_matrix_ader(basis_name, dt, 1)
      SMS == get_stiffness_matrix_ader(basis_name, dt, 0)
      K == calc_ader_matrices_K(FTL, SMT)
  IN [FTL |-> FTL, FTR |-> FTR, SMT |-> SMT,
      SMS_elems |-> [elem \in 0..(m.num_elems - 1) |-> Transposed(SMS)],
      MM |-> get_elem_mass_matrix_ader(basis_name),
      K |-> K,
      iK |-> inv(K, 36, 4)]

\* ------------------------------------------------------- the solver object
\* bound on the number of Picard iterations of the predictor
MaxIter == 2

\* general.py and the basis classes: the kind and the shape of a basis
MODAL_OR_NODAL(basis_name) ==
  IF basis_name = "LegendreSeg" THEN "Modal" ELSE "Nodal"

shape_type(basis_name) ==
  IF basis_name = "LagrangeTri" THEN "Triangle" ELSE "Segment"

\* the line of n segments of mesh_1D, and a single triangle
SegmentMesh(n) ==
  [shape |-> "Segment", num_elems |-> n,
   interior_faces |-> mesh_1D(n, FALSE, FALSE).interior_faces,
   boundary_faces |-> mesh_1D(n, FALSE, FALSE).boundary_faces]

TriangleMesh ==
  [shape |-> "Triangle", num_elems |-> 1,
   interior_faces |-> [k \in {} |-> 0],
   boundary_faces |->
     [k \in 0..2 |-> [group |-> "Wall", elem_ID |-> 0, face_ID |-> k]]]

\* a mesh object that registers a local face index no segment has, on its
\* first interior face (side "L" or "R") or on its first boundary face
BadFaceMesh(n, where) ==
  LET m == SegmentMesh(n)
  IN IF where = "L"
     THEN [m EXCEPT !.interior_faces[0].faceL_ID = 2]
     ELSE IF where = "R"
     THEN [m EXCEPT !.interior_faces[0].faceR_ID = 2]
     ELSE [m EXCEPT !.boundary_faces[0].face_ID = 2]

SolverMeshes ==
  {SegmentMesh(n) : n \in 1..MaxElems} \cup {TriangleMesh}
    \cup {BadFaceMesh(2, w) : w \in {"L", "R"}} \cup {BadFaceMesh(1, "B")}

\* the scalar physics handed to the solver: F(u) = c u, S(u) = nu u
SolverPhysics == {[c |-> 0, nu |-> 0], [c |-> 1, nu |-> 0], [c |-> 0, nu |-> 1]}

SolverParams ==
  [TimeScheme : {"ADER", "RK4"},
   InterpBasis : {"LagrangeSeg", "LegendreSeg", "LagrangeTri"},
   InterpolateIC : BOOLEAN, InterpolateFlux : BOOLEAN,
   NodeType : {"Equidistant", "GaussLobatto"},
   StartTime : {0}, EndTime : {2}, NumTimeSteps : {1, 2}]

\* Solver objects at the entry of their constructor.  ADERDG builds its
\* space-time operators for segment and quadrilateral bases only
\* (get_geom_data), so it is given no triangle basis; the physics, the
\* iteration count and the number of steps are varied for ADERDG only, the
\* time loop of a DG solver being the residual assembly above.
\* solve reads the number of steps as Params["nTimeStep"] (base.py, line
\* 386), precompute_matrix_operators of ADERDG as Params['NumTimeSteps']
\* (ADERDG.py, line 391): the parameter dictionary gives the configured
\* number under both keys
BothKeys(P) ==
  [k \in DOMAIN P \cup {"nTimeStep"} |->
     IF k = "nTimeStep" THEN P.NumTimeSteps ELSE P[k]]

\* the time-stepping parameters varied: start and end times whose
\* quotients by the step counts are exact, and a step count of zero
TimeParams ==
  [TimeScheme : {"ADER", "RK4"},
   InterpBasis : {"LagrangeSeg"},
   InterpolateIC : {TRUE}, InterpolateFlux : {TRUE},
   NodeType : {"Equidistant"},
   StartTime : {0, 2}, EndTime : {2, 4}, NumTimeSteps : {0, 1, 2}]

NewSolver(cl, P, ph, m, n) ==
  [cls |-> cl, Params |-> BothKeys(P), physics |-> ph, mesh |-> m, niter |-> n,
   pc |-> "__init__", error |-> "", raised_in |-> "",
   Stepper |-> None, basis |-> "", U |-> None, Up |-> None,
   operators |-> None, Time |-> P.StartTime, iStep |-> 0,
   face_st |-> <<>>]

NewSolvers ==
  {NewSolver("ADERDG", P, ph, m, n) :
     P \in {Q \in SolverParams : Q.InterpBasis # "LagrangeTri"},
     ph \in SolverPhysics, m \in SolverMeshes, n \in 0..MaxIter}
  \cup
  {NewSolver("DG", P, [c |-> 1, nu |-> 0], m, 0) :
     P \in {Q \in SolverParams : Q.NumTimeSteps = 1},
     m \in {SegmentMesh(n) : n \in 1..MaxElems} \cup {TriangleMesh}}
  \cup
  {NewSolver(IF P.TimeScheme = "ADER" THEN "ADERDG" ELSE "DG", P,
             [c |-> 1, nu |-> 0], SegmentMesh(1), 1) : P \in TimeParams}

raise(s, err) == [s EXCEPT !.pc = "raised", !.error = err, !.raised_in = s.pc]

\* SolverBase.check_compatibility
check_compatibility_base(s) ==
  IF s.mesh.shape # shape_type(s.basis) THEN "IncompatibleError"
  ELSE IF s.Params.InterpolateIC /\ MODAL_OR_NODAL(s.basis) # "Nodal"
  THEN "IncompatibleError"
  ELSE IF s.Params.NodeType = "GaussLobatto"
            /\ shape_type(s.basis) = "Triangle"
  THEN "IncompatibleError"
  ELSE ""

\* ADERDG.check_compatibility without the call of the base class
check_compatibility_ADERDG_only(s) ==
  IF s.Params.InterpolateFlux /\ MODAL_OR_NODAL(s.basis) # "Nodal"
  THEN "IncompatibleError"
  ELSE ""

\* ADERDG.check_compatibility
check_compatibility_ADERDG(s) ==
  IF check_compatibility_base(s) # "" THEN check_compatibility_base(s)
  ELSE IF s.Params.InterpolateFlux /\ MODAL_OR_NODAL(s.basis) # "Nodal"
  THEN "IncompatibleError"
  ELSE ""

ZeroArray(n, k) == [elem \in 0..(n - 1) |-> [i \in 1..k |-> 0]]

\* the element states the initial condition can produce
SolverStates(basis_name) ==
  IF shape_type(basis_name) = "Triangle"
  THEN {<<a, a, a>> : a \in 0..MaxU}
  ELSE {<<st[0], st[1]>> : st \in ElemStates}

\* ADERDG.__init__ up to the call of check_compatibility: the time scheme
\* is checked, then the stepper, the bases and physics.Up are set up
ADERDG_init(s) ==
  IF s.Params.TimeScheme # "ADER" THEN raise(s, "IncompatibleError")
  ELSE [s EXCEPT !.Stepper = [scheme |-> "ADER", dt |-> 0],
                 !.basis = s.Params.InterpBasis,
                 !.Up = [elem \in 0..(s.mesh.num_elems - 1) |->
                           [num |-> <<0, 0, 0, 0>>, den |-> 1]],
                 !.pc = "check_compatibility"]

\* SolverBase.__init__ up to the call of check_compatibility
SolverBase_init(s) ==
  [s EXCEPT !.Stepper = [scheme |-> s.Params.TimeScheme, dt |-> 0],
            !.basis = s.Params.InterpBasis,
            !.pc = "check_compatibility"]

\* the check_compatibility the class of the solver dispatches to
check_compatibility(s) ==
  IF s.cls = "ADERDG" THEN check_compatibility_ADERDG(s)
  ELSE check_compatibility_base(s)

\* precompute_matrix_operators of the class of the solver; the tables of the
\* DG operators are those of the residual assembly and are only marked here
precompute_matrix_operators(s) ==
  IF s.cls = "ADERDG"
  THEN LET dt == s.Params.EndTime \div s.Params.NumTimeSteps
       IN [elem_operators |-> TRUE, dt |-> dt,
           ader_operators |-> calc_ader_matrices(s.mesh, s.basis, dt)]
  ELSE [elem_operators |-> TRUE, dt |-> 0, ader_operators |-> None]

\* ------------------------------------------------------------ the predictor
\* A space-time state is a fraction [num, den] of four coefficients.
\* flux_coefficients: the coefficients of F(Up) = c Up, times dt/2 (the
\* nodal interpolation and the L2 projection of this flux are the same)
flux_coefficients(s, elem, dt, Up) ==
  [num |-> [i \in 1..4 |-> s.physics.c * dt * Up.num[i]], den |-> 2 * Up.den]

\* source_coefficients: the coefficients of S(Up) = nu Up, times dt/2; the
\* branch for InterpolateFlux = False reads the local S it never assigned
source_coefficients(s, elem, dt, Up) ==
  IF s.Params.InterpolateFlux
  THEN [error |-> "",
        S |-> [num |-> [i \in 1..4 |-> s.physics.nu * dt * Up.num[i]],
               den |-> 2 * Up.den]]
  ELSE [error |-> "UnboundLocalError", S |-> None]

\* the spatial state W repeated across the temporal levels
SeedInTime(basis_name, W) ==
  [num |-> [k \in 1..4 |->
              ConstantOne(basis_name)[((k - 1) \div 2) + 1]
                * W[((k - 1) % 2) + 1]],
   den |-> 1]

\* one Picard iteration Up <- iK (FTR W - SMS F(Up) + MM S(Up))
PicardStep(s, elem, dt, W, Up) ==
  LET S == source_coefficients(s, elem, dt, Up)
      F == flux_coefficients(s, elem, dt, Up)
      ops == s.operators.ader_operators
  IN IF S.error # "" THEN [error |-> S.error, Up |-> Up]
     ELSE LET rhs == [i \in 1..4 |->
                        F.den * MatVec(ops.FTR, W)[i]
                          - MatVec(ops.SMS_elems[elem], F.num)[i]
                          + MatVec(ops.MM, S.S.num)[i]]
          IN [error |-> "",
              Up |-> Fraction(MatVec(ops.iK, rhs), 144 * F.den)]

\* n Picard iterations, unless one raises
RECURSIVE PicardIteration(_, _, _, _, _, _)
PicardIteration(s, elem, dt, W, Up, n) ==
  IF n = 0 THEN [error |-> "", Up |-> Up]
  ELSE CHOOSE r \in {IF st.error # "" THEN st
                     ELSE PicardIteration(s, elem, dt, W, st.Up, n - 1) :
                       st \in {PicardStep(s, elem, dt, W, Up)}} : TRUE

\* the predictor of one element (solver.calculate_predictor_elem)
predictor_elem(s, elem, dt, W, Up) ==
  PicardIteration(s, elem, dt, W, SeedInTime(s.basis, W), s.niter)

\* the loop of calculate_predictor_step from element elem on; an exception
\* leaves the loop before Up[elem] is assigned
RECURSIVE predictor_loop(_, _, _, _, _)
predictor_loop(s, dt, W, Up, elem) ==
  IF elem >= s.mesh.num_elems THEN [error |-> "", Up |-> Up]
  ELSE CHOOSE res \in
         {IF r.error # "" THEN [error |-> r.error, Up |-> Up]
          ELSE predictor_loop(s, dt, W, [Up EXCEPT ![elem] = r.Up], elem + 1) :
            r \in {predictor_elem(s, elem, dt, W[elem], Up[elem])}} : TRUE

\* ADERDG.calculate_predictor_step
calculate_predictor_step(s, dt, W, Up) == predictor_loop(s, dt, W, Up, 0)

\* --------------------------------------------- the faces of the ADER residual
\* "if face == 0: face_st = 3 / elif face == 1: face_st = 1 / else: return
\* IncompatibleError": the name IncompatibleError is not defined in the
\* module (only errors.IncompatibleError is), so the else branch raises
\* NameError
face_st_of(face) ==
  IF face = 0 THEN [error |-> "", face_st |-> 3]
  ELSE IF face = 1 THEN [error |-> "", face_st |-> 1]
  ELSE [error |-> "NameError", face_st |-> -1]

\* the faces the residual evaluation visits, in its order: the boundary
\* faces, then faceL and faceR of each interior face
FacesInOrder(m) ==
  LET nbf == Cardinality(DOMAIN m.boundary_faces)
      nif == Cardinality(DOMAIN m.interior_faces)
  IN [k \in 1..(nbf + 2 * nif) |->
        IF k <= nbf THEN m.boundary_faces[k - 1].face_ID
        ELSE IF (k - nbf) % 2 = 1
        THEN m.interior_faces[(k - nbf - 1) \div 2].faceL_ID
        ELSE m.interior_faces[(k - nbf - 1) \div 2].faceR_ID]

\* calculate_residual_bface and calculate_residual_iface over the faces from
\* the k-th on: the space-time face index chosen for each, until one raises
RECURSIVE residual_faces(_, _, _)
residual_faces(faces, k, log) ==
  IF k > Len(faces) THEN [error |-> "", face_st |-> log]
  ELSE LET r == face_st_of(faces[k])
       IN IF r.error # "" THEN [error |-> r.error, face_st |-> log]
          ELSE residual_faces(faces, k + 1, Append(log, r.face_st))

\* --------------------------------------------- the life of a solver object
InitSolver ==
  /\ ResidualIdle
  /\ int_face_helpers = None
  /\ nonfinite = None
  /\ adaptation = None
  /\ user_adaptation = None
  /\ solver \in NewSolvers

\* the constructor of the class, up to its call of check_compatibility
solver_init ==
  /\ solver # None
  /\ solver.pc = "__init__"
  /\ solver' = IF solver.cls = "ADERDG" THEN ADERDG_init(solver)
               ELSE SolverBase_init(solver)
  /\ UNCHANGED not_solver

solver_check_compatibility ==
  /\ solver # None
  /\ solver.pc = "check_compatibility"
  /\ solver' = IF check_compatibility(solver) # ""
               THEN raise(solver, check_compatibility(solver))
               ELSE [solver EXCEPT !.pc = "precompute_matrix_operators"]
  /\ UNCHANGED not_solver

solver_precompute_matrix_operators ==
  /\ solver # None
  /\ solver.pc = "precompute_matrix_operators"
  /\ solver' = IF solver.cls = "ADERDG" /\ solver.Params.NumTimeSteps = 0
               THEN raise(solver, "ZeroDivisionError")
               ELSE [solver EXCEPT
                       !.operators = precompute_matrix_operators(solver),
                       !.pc = "init_state_from_fcn"]
  /\ UNCHANGED not_solver

\* init_state_from_fcn: the coefficients of the initial condition
solver_init_state_from_fcn ==
  /\ solver # None
  /\ solver.pc = "init_state_from_fcn"
  /\ \E U0 \in [0..(solver.mesh.num_elems - 1) -> SolverStates(solver.basis)] :
       solver' = [solver EXCEPT !.U = U0, !.pc = "constructed"]
  /\ UNCHANGED not_solver

\* the first statement of a pass of the time loop, Stepper.TakeTimeStep:
\* the predictor of an ADER stepper, the step of any other stepper
TakeTimeStep_entry(s) ==
  IF s.cls = "ADERDG" THEN "calculate_predictor_step" ELSE "TakeTimeStep"

\* solve with the time step taken from time 0: EndTime/nTimeStep
solver_solve_from_zero ==
  /\ solver # None
  /\ solver.pc = "constructed"
  /\ solver' = [solver EXCEPT
                  !.Stepper.dt = IF solver.Params.nTimeStep # 0
                                 THEN solver.Params.EndTime
                                        \div solver.Params.nTimeStep
                                 ELSE @,
                  !.pc = IF solver.Params.nTimeStep > 0
                         THEN TakeTimeStep_entry(solver) ELSE "done"]
  /\ UNCHANGED not_solver

\* SolverBase.solve up to the first pass of the time loop
\* ("for iStep in range(self.nTimeStep)"): the time step, unless the
\* number of steps is 0, and then no pass is made
solver_solve ==
  /\ solver # None
  /\ solver.pc = "constructed"
  /\ solver' = [solver EXCEPT
                  !.Stepper.dt = IF solver.Params.nTimeStep # 0
                                 THEN (solver.Params.EndTime - solver.Time)
                                        \div solver.Params.nTimeStep
                                 ELSE @,
                  !.pc = IF solver.Params.nTimeStep > 0
                         THEN TakeTimeStep_entry(solver) ELSE "done"]
  /\ UNCHANGED not_solver

\* Stepper.TakeTimeStep of a stepper other than ADER: it updates the
\* solution from residuals of the solver and returns
solver_TakeTimeStep ==
  /\ solver # None
  /\ solver.pc = "TakeTimeStep"
  /\ solver' = [solver EXCEPT !.pc = "update"]
  /\ UNCHANGED not_solver

solver_calculate_predictor_step ==
  /\ solver # None
  /\ solver.pc = "calculate_predictor_step"
  /\ \E r \in {calculate_predictor_step(solver, solver.Stepper.dt, solver.U,
                                         solver.Up)} :
       solver' = IF r.error # ""
                 THEN [raise(solver, r.error) EXCEPT !.Up = r.Up]
                 ELSE [solver EXCEPT !.Up = r.Up, !.pc = "calculate_residual"]
  /\ UNCHANGED not_solver

\* calculate_residual of an ADERDG solver, as far as its faces go
solver_calculate_residual ==
  /\ solver # None
  /\ solver.pc = "calculate_residual"
  /\ \E r \in {residual_faces(FacesInOrder(solver.mesh), 1, <<>>)} :
       solver' = IF r.error # ""
                 THEN [raise(solver, r.error) EXCEPT !.face_st = r.face_st]
                 ELSE [solver EXCEPT !.face_st = r.face_st, !.pc = "update"]
  /\ UNCHANGED not_solver

\* the end of one pass of the time loop of apply_time_scheme
solver_apply_time_scheme ==
  /\ solver # None
  /\ solver.pc = "update"
  /\ solver' = [solver EXCEPT
                  !.Time = @ + solver.Stepper.dt,
                  !.iStep = @ + 1,
                  !.pc = IF solver.iStep + 1 < solver.Params.nTimeStep
                         THEN TakeTimeStep_entry(solver) ELSE "done"]
  /\ UNCHANGED not_solver

NextSolver ==
  \/ solver_init
  \/ solver_check_compatibility
  \/ solver_precompute_matrix_operators
  \/ solver_init_state_from_fcn
  \/ solver_solve
  \/ solver_TakeTimeStep
  \/ solver_calculate_predictor_step
  \/ solver_calculate_residual
  \/ solver_apply_time_scheme

SpecSolver == InitSolver /\ [][NextSolver]_vars

\* ---------------------------------------------------------------------- C14
PredictorCalled ==
  /\ solver # None
  /\ \/ solver.pc = "calculate_residual"
     \/ solver.pc = "raised" /\ solver.raised_in = "calculate_predictor_step"

ZeroFluxAndSource == solver.physics.c = 0 /\ solver.physics.nu = 0

\* the spatial coefficient i of the space-time state Up at the temporal
\* level tau (-1: start of the slab, 1: its end), times 2 Up.den
AtTemporalLevel(Up, basis_name, tau, i) ==
  SumOver([jt \in 1..2 |->
             ValuesAtEnd(basis_name, tau)[jt] * Up.num[2 * (jt - 1) + i]],
          1..2)

\* Up of element elem is the spatial state of the element at both levels
RepeatsState(s, elem) ==
  \A tau \in {-1, 1}, i \in 1..2 :
    AtTemporalLevel(s.Up[elem], s.basis, tau, i)
      = 2 * s.Up[elem].den * s.U[elem][i]

\* C14: with zero flux and zero source, every call of the predictor
\* returns, for every element, the spatial state of the element repeated
\* unchanged across the temporal levels, whatever the iteration count and
\* whatever Up held before the call.
C14_PredictorIdempotent ==
  (PredictorCalled /\ ZeroFluxAndSource) =>
    /\ solver.error = ""
    /\ \A elem \in DOMAIN solver.Up : RepeatsState(solver, elem)

\* the same for the solvers that interpolate the flux, the only ones whose
\* source_coefficients returns
C14_IdempotentWhenInterpolated ==
  (PredictorCalled /\ ZeroFluxAndSource /\ solver.Params.InterpolateFlux) =>
    /\ solver.error = ""
    /\ \A elem \in DOMAIN solver.Up : RepeatsState(solver, elem)

\* a second call of the predictor on non-zero states, Up holding the result
\* of the first
C14_Witness ==
  /\ PredictorCalled
  /\ ZeroFluxAndSource
  /\ solver.Params.InterpolateFlux
  /\ solver.niter = 2
  /\ solver.iStep = 1
  /\ solver.mesh.num_elems = 2
  /\ solver.U = [elem \in 0..1 |-> IF elem = 0 THEN <<1, 0>> ELSE <<1, 1>>]
  /\ solver.Up[0] = [num |-> <<1, 0, 1, 0>>, den |-> 1]

\* ---------------------------------------------------------------------- C15
\* K = FTL - SMT and iK is its inverse (K in units of 1/36, iK of 1/4)
OperatorsConsistent(ops) ==
  /\ ops.K = MatSub(ops.FTL, ops.SMT)
  /\ MatMul(ops.K, ops.iK) = Scaled(144, Identity(Len(ops.K)))

\* C15: K = FTL - SMT and its inverse iK are set by the operator
\* precomputation only, before any solution exists, and every later step of
\* the solver (predictor steps, residual evaluations, the time loop) leaves
\* them as they are, so each time step uses the iK computed at setup.
C15_OperatorsComputedOnce ==
  [][/\ solver.operators # solver'.operators =>
          /\ solver.pc = "precompute_matrix_operators"
          /\ solver.operators = None
          /\ solver.U = None
     /\ (solver'.operators # None /\ solver'.cls = "ADERDG") =>
          OperatorsConsistent(solver'.operators.ader_operators)]_vars

\* the predictor has run a second time, on a non-zero solution, with
\* operators that are still consistent
C15_Witness ==
  /\ solver.pc = "calculate_residual"
  /\ solver.iStep = 1
  /\ solver.physics.c = 1
  /\ solver.niter = 2
  /\ solver.basis = "LagrangeSeg"
  /\ solver.U = [elem \in {0} |-> <<1, 0>>]
  /\ solver.Up[0] # SeedInTime(solver.basis, solver.U[0])
  /\ solver.operators.ader_operators.iK
       = <<<<8, -4, -8, 4>>, <<-4, 8, 4, -8>>, <<8, -4, 8, -4>>,
           <<-4, 8, -4, 8>>>>

\* ---------------------------------------------------------------------- C16
NonNodal(s) == MODAL_OR_NODAL(s.Params.InterpBasis) # "Nodal"

\* the configuration errors other than InterpolateFlux on a non-nodal basis
IncompatibleBasics(s) ==
  \/ s.cls = "ADERDG" /\ s.Params.TimeScheme # "ADER"
  \/ s.mesh.shape # shape_type(s.Params.InterpBasis)
  \/ s.Params.InterpolateIC /\ NonNodal(s)
  \/ /\ s.Params.NodeType = "GaussLobatto"
     /\ shape_type(s.Params.InterpBasis) = "Triangle"

\* the constructor has raised IncompatibleError, or may still do so, and
\* has neither precomputed an operator nor initialised the state
FatalAtSetup(s) ==
  /\ s.pc \in {"__init__", "check_compatibility", "raised"}
  /\ s.pc = "raised" => s.error = "IncompatibleError"
  /\ s.operators = None
  /\ s.U = None

\* C16 as stated: every solver constructed with a wrong time scheme (ADERDG),
\* a mesh shape other than the basis shape, InterpolateIC or InterpolateFlux
\* on a non-nodal basis, or Gauss-Lobatto nodes on triangles raises
\* IncompatibleError before operators are precomputed and the state is set.
C16_ConfigurationErrorFatal ==
  (solver # None
     /\ (IncompatibleBasics(solver)
           \/ (solver.Params.InterpolateFlux /\ NonNodal(solver))))
    => FatalAtSetup(solver)

\* C16, amended: InterpolateFlux on a non-nodal basis is an error of the
\* ADERDG solver only.
C16_ConfigurationErrorFatalADER ==
  (solver # None
     /\ (IncompatibleBasics(solver)
           \/ (solver.cls = "ADERDG"
                 /\ solver.Params.InterpolateFlux /\ NonNodal(solver))))
    => FatalAtSetup(solver)

\* an ADERDG solver that fails on InterpolateFlux alone, after physics.Up
\* was allocated
C16_Witness ==
  /\ solver.cls = "ADERDG"
  /\ solver.Params.TimeScheme = "ADER"
  /\ solver.Params.InterpBasis = "LegendreSeg"
  /\ solver.mesh.shape = "Segment"
  /\ solver.Params.InterpolateFlux
  /\ ~solver.Params.InterpolateIC
  /\ solver.pc = "raised"
  /\ solver.raised_in = "check_compatibility"
  /\ solver.error = "IncompatibleError"
  /\ solver.Up # None
  /\ solver.operators = None

\* ---------------------------------------------------------------------- C18
\* some face of the mesh registers a local face index other than 0 and 1
HasUnsupportedFace(m) ==
  \E k \in DOMAIN FacesInOrder(m) : FacesInOrder(m)[k] \notin {0, 1}

\* C18: an ADERDG solver whose mesh registers an unsupported local face
\* index is rejected while it is set up; the residual evaluation is never
\* started on such a mesh and never ends in an error raised by one of
\* its faces.
C18_UnsupportedFaceRejectedAtSetup ==
  (solver # None /\ solver.cls = "ADERDG" /\ HasUnsupportedFace(solver.mesh))
    => /\ solver.pc \in {"__init__", "check_compatibility", "raised"}
       /\ solver.pc = "raised" =>
            solver.raised_in \in {"__init__", "check_compatibility"}

\* ------------------------------------------- finiteness of the residual
\* The residual evaluation of a DG solver, keeping of every number only
\* whether it is finite.  Arithmetic with a non-finite operand gives a
\* non-finite result (0 * inf = nan included) and raises nothing; choosing
\* one of two arrays (the upwind state) keeps the finiteness of the chosen.
\* U and R are the sets of the elements whose coefficients are not all
\* finite.

\* Uq = evaluate_state(Uc, basis_val)
nonfinite_state(nf, elem_ID) == elem_ID \in nf.U

\* physics.get_conv_flux_numerical at a face with normal n
nonfinite_numerical_flux(nf, badL, badR, n) ==
  IF nf.params.ConvFluxNumerical = "ExactLinearFlux"
  THEN IF n * nf.params.c >= 0 THEN badL ELSE badR
  ELSE badL \/ badR

\* BC.get_boundary_flux at boundary face k; the boundary state is finite
nonfinite_boundary_flux(nf, k) ==
  LET bf == nf.mesh.boundary_faces[k]
      n == calculate_normals(bf.elem_ID, bf.face_ID)[0]
  IN IF BCs[bf.group] = "StateAll"
     THEN nonfinite_numerical_flux(nf, nonfinite_state(nf, bf.elem_ID),
                                   FALSE, n)
     ELSE nonfinite_state(nf, bf.elem_ID)

\* get_boundary_face_residual over all boundary faces: R_B -= ...
nonfinite_bfaces(nf) ==
  nf.R \cup {nf.mesh.boundary_faces[k].elem_ID :
               k \in {j \in DOMAIN nf.mesh.boundary_faces :
                        nf.params.ConvFluxSwitch
                          /\ nonfinite_boundary_flux(nf, j)}}

\* get_element_residual over all elements: R_elem += ... for the flux and
\* for the source
nonfinite_elems(nf) ==
  nf.R \cup {e \in 0..(nf.mesh.num_elems - 1) :
               (nf.params.ConvFluxSwitch \/ nf.params.SourceSwitch)
                 /\ nonfinite_state(nf, e)}

\* get_interior_face_residual over all interior faces: R_L -= ..., R_R += ...
nonfinite_ifaces(nf) ==
  LET hit == {k \in DOMAIN nf.mesh.interior_faces :
                LET f == nf.mesh.interior_faces[k]
                IN nf.params.ConvFluxSwitch
                     /\ nonfinite_numerical_flux(
                          nf, nonfinite_state(nf, f.elemL_ID),
                          nonfinite_state(nf, f.elemR_ID),
                          calculate_normals(f.elemL_ID, f.faceL_ID)[0])}
  IN nf.R \cup {nf.mesh.interior_faces[k].elemL_ID : k \in hit}
          \cup {nf.mesh.interior_faces[k].elemR_ID : k \in hit}

\* calculate_residual is entered with R zeroed, on a state of which the
\* elements in U hold a non-finite coefficient
InitNonFinite ==
  /\ ResidualIdle
  /\ int_face_helpers = None
  /\ solver = None
  /\ adaptation = None
  /\ user_adaptation = None
  /\ \E m \in Meshes, p \in Params :
       \E bad \in SUBSET (0..(m.num_elems - 1)) :
         nonfinite = [mesh |-> m, params |-> p, U |-> bad, R |-> {},
                      pc |-> "bfaces", error |-> ""]

nonfinite_calculate_residual_bfaces ==
  /\ nonfinite # None
  /\ nonfinite.pc = "bfaces"
  /\ nonfinite' = [nonfinite EXCEPT !.R = nonfinite_bfaces(nonfinite),
                                    !.pc = "elems"]
  /\ UNCHANGED not_nonfinite

nonfinite_calculate_residual_elems ==
  /\ nonfinite # None
  /\ nonfinite.pc = "elems"
  /\ nonfinite' = [nonfinite EXCEPT !.R = nonfinite_elems(nonfinite),
                                    !.pc = "ifaces"]
  /\ UNCHANGED not_nonfinite

nonfinite_calculate_residual_ifaces ==
  /\ nonfinite # None
  /\ nonfinite.pc = "ifaces"
  /\ nonfinite' = [nonfinite EXCEPT !.R = nonfinite_ifaces(nonfinite),
                                    !.pc = "done"]
  /\ UNCHANGED not_nonfinite

NextNonFinite ==
  \/ nonfinite_calculate_residual_bfaces
  \/ nonfinite_calculate_residual_elems
  \/ nonfinite_calculate_residual_ifaces

SpecNonFinite == InitNonFinite /\ [][NextNonFinite]_vars

\* ---------------------------------------------------------------------- C17
\* some flux or source evaluation of the residual evaluation so far has
\* produced a non-finite value
NonFiniteEvaluated(nf) ==
  \/ nf.pc \in {"elems", "ifaces", "done"} /\ nonfinite_bfaces(
       [nf EXCEPT !.R = {}]) # {}
  \/ nf.pc \in {"ifaces", "done"} /\ nonfinite_elems([nf EXCEPT !.R = {}]) # {}
  \/ nf.pc = "done" /\ nonfinite_ifaces([nf EXCEPT !.R = {}]) # {}

\* C17: once a flux or source evaluation has produced a non-finite value,
\* the residual evaluation has ended in a fatal error, and no row of the
\* residual holds a non-finite value.
C17_NonFiniteIsFatal ==
  (nonfinite # None /\ NonFiniteEvaluated(nonfinite)) =>
    /\ nonfinite.error # ""
    /\ nonfinite.R = {}


\* ------------------------------------------------------------------------
\* Mesh adaptation (meshing/adapt.py) on triangle meshes.  Ids are 0-based as
\* in the code and the sequences that hold arrays and lists are 1-based.
\* Coordinates are integers in units of 1/8000, so that the midpoints and the
\* centroids of a few refinements are exact and .001 is 8 units.
\* ------------------------------------------------------------------------

\* the number of calls of adapt on one mesh
MaxAdapts == 1

\* the faces of a triangle: mesh.gbasis.NFACES of the meshes adapt works on
NFACES_Tri == 3

\* seq[i] of a numpy array or of a Python list: a negative index counts from
\* the end
At(seq, i) == IF i < 0 THEN seq[Len(seq) + i + 1] ELSE seq[i + 1]

\* the position in a list that the index i of At stands for
Position(seq, i) == IF i < 0 THEN Len(seq) + i ELSE i

\* whether numpy accepts i as an index of seq
InBounds(seq, i) == -Len(seq) <= i /\ i < Len(seq)

\* seq with the entry at index i replaced
Put(seq, i, v) == [seq EXCEPT ![Position(seq, i) + 1] = v]

\* the values of an array
Values(seq) == {seq[k] : k \in 1..Len(seq)}

\* np.argwhere(seq == v)[0]: the first index that holds v (not defined when
\* none does)
FirstIndex(seq, v) ==
  CHOOSE i \in 0..(Len(seq) - 1) :
    /\ seq[i + 1] = v
    /\ \A j \in 0..(i - 1) : seq[j + 1] # v

\* the ascending array of a set of integers
RECURSIVE SortedArray(_)
SortedArray(S) ==
  IF S = {} THEN <<>>
  ELSE LET least == CHOOSE x \in S : \A y \in S : x <= y
       IN <<least>> \o SortedArray(S \ {least})

\* an element as create_elements of the mesh module leaves it: the coordinates
\* are the rows of the mesh array at the element's node ids
Element(id, node_ids, node_coords, face_to_neighbors) ==
  [id |-> id, node_ids |-> node_ids,
   node_coords |-> [k \in 1..Len(node_ids) |-> At(node_coords, node_ids[k])],
   face_to_neighbors |-> face_to_neighbors]

\* the neighbour of element e across its local face f, the face opposite its
\* local node f, in a mesh given by its connectivity: -1 on the boundary
NeighborAcross(elem_to_node_ids, e, f) ==
  LET face_nodes == Values(elem_to_node_ids[e + 1]) \ {elem_to_node_ids[e + 1][f + 1]}
      across == {n \in 0..(Len(elem_to_node_ids) - 1) :
                   n # e /\ face_nodes \subseteq Values(elem_to_node_ids[n + 1])}
  IN IF across = {} THEN -1 ELSE CHOOSE n \in across : TRUE

\* the interior faces of a connectivity, the element of lower id on the left
RECURSIVE InteriorFacesFrom(_, _, _)
InteriorFacesFrom(elem_to_node_ids, e, f) ==
  IF e >= Len(elem_to_node_ids) THEN <<>>
  ELSE IF f >= NFACES_Tri THEN InteriorFacesFrom(elem_to_node_ids, e + 1, 0)
  ELSE LET n == NeighborAcross(elem_to_node_ids, e, f)
           rest == InteriorFacesFrom(elem_to_node_ids, e, f + 1)
       IN IF n > e
          THEN <<[elemL_id |-> e, faceL_id |-> f, elemR_id |-> n,
                  faceR_id |-> CHOOSE g \in 0..(NFACES_Tri - 1) :
                                 NeighborAcross(elem_to_node_ids, n, g) = e]>>
               \o rest
          ELSE rest

\* a triangle mesh built from its node coordinates and its connectivity
TriMesh(node_coords, elem_to_node_ids) ==
  LET faces == InteriorFacesFrom(elem_to_node_ids, 0, 0)
  IN [node_coords |-> node_coords,
      elem_to_node_ids |-> elem_to_node_ids,
      num_elems |-> Len(elem_to_node_ids),
      elements |-> [k \in 1..Len(elem_to_node_ids) |->
                      Element(k - 1, elem_to_node_ids[k], node_coords,
                              [f \in 1..NFACES_Tri |-> NeighborAcross(elem_to_node_ids,
                                                             k - 1, f - 1)])],
      interior_faces |-> faces,
      num_interior_faces |-> Len(faces)]

\* the nodes of a triangle listed from its r-th node on, still counterclockwise
Rotated(node_ids, r) == [k \in 1..3 |-> node_ids[((k - 1 + r) % 3) + 1]]

\* one triangle
OneTriangle ==
  TriMesh(<<<<0, 0>>, <<8000, 0>>, <<0, 8000>>>>, <<<<0, 1, 2>>>>)

\* a unit square cut along its diagonal, the two triangles listed from their
\* r0-th and r1-th node on
TwoTriangles(r0, r1) ==
  TriMesh(<<<<0, 0>>, <<8000, 0>>, <<8000, 8000>>, <<0, 8000>>>>,
          <<Rotated(<<0, 1, 2>>, r0), Rotated(<<0, 2, 3>>, r1)>>)

\* a square of side 2 cut into four triangles around its centre
FourTriangles(r0, r1) ==
  TriMesh(<<<<0, 0>>, <<16000, 0>>, <<16000, 16000>>, <<0, 16000>>,
            <<8000, 8000>>>>,
          <<Rotated(<<0, 1, 4>>, r0), Rotated(<<1, 2, 4>>, r1),
            <<2, 3, 4>>, <<3, 0, 4>>>>)

\* the meshes adapt is called on
AdaptMeshes ==
  {OneTriangle}
    \cup {TwoTriangles(r0, r1) : r0 \in 0..2, r1 \in 0..2}
    \cup {FourTriangles(r0, r1) : r0 \in 0..2, r1 \in 0..2}

\* face_geometry_between: the node ids that two elements share, in ascending
\* order, and the squared length of the face between the first two of them;
\* an IndexError when fewer than two are shared
face_geometry_between(elem1, elem2, node_coords) ==
  LET face_node_ids ==
        SortedArray(Values(elem1.node_ids) \cap Values(elem2.node_ids))
  IN IF Len(face_node_ids) < 2
     THEN [error |-> "IndexError", area |-> 0, face_node_ids |-> face_node_ids]
     ELSE LET p == At(node_coords, face_node_ids[1])
              q == At(node_coords, face_node_ids[2])
          IN [error |-> "",
              area |-> (p[1] - q[1]) * (p[1] - q[1])
                         + (p[2] - q[2]) * (p[2] - q[2]),
              face_node_ids |-> face_node_ids]

\* the values an uninitialised entry of face_node_ids is taken from: zero, as
\* in fresh memory, and, as in memory that was used before, the id of the
\* last node and an id past the end of mesh.node_coords
GarbageIds(m) == {0, Len(m.node_coords) - 1, Len(m.node_coords)}

\* find_longest_face: the outcomes of the call.  The faces with neighbour -1
\* are skipped, which leaves their entries of the two np.empty arrays
\* uninitialised: np.argmax returns the first longest of the computed faces
\* when the uninitialised areas are smaller, and a skipped face, with
\* uninitialised node ids, when one of them is not.
find_longest_face(elem, m) ==
  LET faces == 0..(NFACES_Tri - 1)
      computed == {i \in faces : elem.face_to_neighbors[i + 1] # -1}
      geometry == [i \in computed |->
                     face_geometry_between(
                       elem, At(m.elements, elem.face_to_neighbors[i + 1]),
                       m.node_coords)]
      failed == {i \in computed : \/ geometry[i].error # ""
                                  \/ Len(geometry[i].face_node_ids) # 2}
      first_failed == CHOOSE i \in failed : \A j \in failed : i <= j
      longest == CHOOSE i \in computed :
                   /\ \A j \in computed : geometry[j].area <= geometry[i].area
                   /\ \A j \in computed :
                        j < i => geometry[j].area < geometry[i].area
  IN IF failed # {}
     THEN {[error |-> IF geometry[first_failed].error # ""
                      THEN geometry[first_failed].error ELSE "ValueError",
            long_face |-> first_failed, long_face_node_ids |-> <<>>]}
     ELSE {[error |-> "", long_face |-> longest,
            long_face_node_ids |-> geometry[longest].face_node_ids]
             : i \in IF computed = {} THEN {} ELSE {0}}
          \cup {[error |-> "", long_face |-> i, long_face_node_ids |-> <<a, b>>]
                  : i \in faces \ computed, a \in GarbageIds(m),
                    b \in GarbageIds(m)}

\* find_counterclockwise_node: the more counterclockwise of a and b in nodes,
\* then the other; an IndexError when one of them is not in nodes
find_counterclockwise_node(nodes, a, b) ==
  IF a \notin Values(nodes) \/ b \notin Values(nodes)
  THEN [error |-> "IndexError", ccwise_node |-> -1, cwise_node |-> -1]
  ELSE LET a_index == FirstIndex(nodes, a)
           b_index == FirstIndex(nodes, b)
       IN IF a_index > b_index /\ b_index # 0
          THEN [error |-> "", ccwise_node |-> a, cwise_node |-> b]
          ELSE IF a_index = 0
          THEN [error |-> "", ccwise_node |-> a, cwise_node |-> b]
          ELSE [error |-> "", ccwise_node |-> b, cwise_node |-> a]

\* np.setdiff1d(ar1, ar2, assume_unique=True)[0]: the first entry of ar1 that
\* is not in ar2
setdiff1d_first(ar1, ar2) ==
  ar1[CHOOSE k \in 1..Len(ar1) :
        /\ ar1[k] \notin Values(ar2)
        /\ \A j \in 1..(k - 1) : ar1[j] \in Values(ar2)]

\* the loop of append_element with its first test only: a face is patched
\* when the parent is its left element
patch_interior_face_left_only(interior_faces, parent, parent_neighbor, id, face_id) ==
  LET between == {k \in 1..Len(interior_faces) :
                    /\ interior_faces[k].elemL_id = parent
                    /\ interior_faces[k].elemR_id = parent_neighbor}
      first == CHOOSE k \in between : \A j \in between : k <= j
  IN IF between = {} THEN interior_faces
     ELSE [interior_faces EXCEPT ![first].elemL_id = id,
                                 ![first].faceL_id = face_id]

\* the loop of append_element over mesh.interior_faces: the first face between
\* parent and parent_neighbor gets the new element on the parent's side
patch_interior_face(interior_faces, parent, parent_neighbor, id, face_id) ==
  LET between == {k \in 1..Len(interior_faces) :
                    \/ /\ interior_faces[k].elemL_id = parent
                       /\ interior_faces[k].elemR_id = parent_neighbor
                    \/ /\ interior_faces[k].elemR_id = parent
                       /\ interior_faces[k].elemL_id = parent_neighbor}
      first == CHOOSE k \in between : \A j \in between : k <= j
  IN IF between = {} THEN interior_faces
     ELSE IF /\ interior_faces[first].elemL_id = parent
             /\ interior_faces[first].elemR_id = parent_neighbor
     THEN [interior_faces EXCEPT ![first].elemL_id = id,
                                 ![first].faceL_id = face_id]
     ELSE [interior_faces EXCEPT ![first].elemR_id = id,
                                 ![first].faceR_id = face_id]

\* append_element: the mesh after the call and the id of the new element.  The
\* new element copies its coordinates from mesh.node_coords; an IndexError,
\* with the element already appended, when the parent's neighbour does not
\* list the parent
append_element(m, node_ids, face_id, parent, parent_face_id) ==
  LET id == Len(m.elements)
      parent_neighbor_id ==
        At(m.elements[parent + 1].face_to_neighbors, parent_face_id)
      elem == [id |-> id, node_ids |-> node_ids,
               node_coords |-> [k \in 1..Len(node_ids) |->
                                  At(m.node_coords, node_ids[k])],
               face_to_neighbors |->
                 Put([f \in 1..NFACES_Tri |-> -1], face_id, parent_neighbor_id)]
      appended == [m EXCEPT !.elements = Append(@, elem),
                            !.elem_to_node_ids = Append(@, node_ids),
                            !.num_elems = @ + 1]
  IN IF parent_neighbor_id = -1
     THEN [error |-> "", mesh |-> appended, elem |-> id]
     ELSE IF m.elements[parent + 1].id
               \notin Values(appended.elements[parent_neighbor_id + 1].face_to_neighbors)
     THEN [error |-> "IndexError", mesh |-> appended, elem |-> id]
     ELSE LET parent_id == m.elements[parent + 1].id
              parent_neighbor == appended.elements[parent_neighbor_id + 1]
              parent_neighbor_face_index ==
                FirstIndex(parent_neighbor.face_to_neighbors, parent_id)
          IN [error |-> "",
              mesh |->
                [appended EXCEPT
                   !.elements[parent_neighbor_id + 1].face_to_neighbors =
                     Put(@, parent_neighbor_face_index, id),
                   !.interior_faces =
                     patch_interior_face(@, parent_id, parent_neighbor.id, id,
                                         face_id)],
              elem |-> id]

\* append_face without its line 194: the neighbour is set on the left of the
\* face only
append_face_left_only(m, elem1, elem2, faceL_id, faceR_id) ==
  LET left == [m EXCEPT !.elements[elem1 + 1].face_to_neighbors =
                          Put(@, faceL_id, m.elements[elem2 + 1].id)]
  IN [left EXCEPT
        !.interior_faces =
          Append(@, [elemL_id |-> m.elements[elem1 + 1].id,
                     faceL_id |-> faceL_id,
                     elemR_id |-> m.elements[elem2 + 1].id,
                     faceR_id |-> faceR_id]),
        !.num_interior_faces = @ + 1]

\* append_face: the mesh with a new interior face between elem1 and elem2
append_face(m, elem1, elem2, faceL_id, faceR_id) ==
  LET left == [m EXCEPT !.elements[elem1 + 1].face_to_neighbors =
                          Put(@, faceL_id, m.elements[elem2 + 1].id)]
  IN [left EXCEPT
        !.interior_faces =
          Append(@, [elemL_id |-> m.elements[elem1 + 1].id,
                     faceL_id |-> faceL_id,
                     elemR_id |-> m.elements[elem2 + 1].id,
                     faceR_id |-> faceR_id]),
        !.elements[elem2 + 1].face_to_neighbors =
          Put(@, faceR_id, m.elements[elem1 + 1].id),
        !.num_interior_faces = @ + 1]

\* the solver arrays that adapt touches next to the mesh: one row of U and of
\* x_elems per element, the number of elements the cached operators were
\* computed for, and the residual of the stepper
AdaptedSolver(m) ==
  [mesh |-> m,
   U |-> [k \in 1..m.num_elems |-> k - 1],
   x_elems |-> [k \in 1..m.num_elems |-> k - 1],
   operators |-> m.num_elems,
   R |-> "allocated"]

\* the local variables of one pass of the loop of adapt over the element elem,
\* before find_longest_face has returned
Locals(s, elem) ==
  [error |-> "", mesh |-> s.mesh, U |-> s.U, x_elems |-> s.x_elems,
   operators |-> s.operators, R |-> s.R, elem |-> elem,
   long_face |-> -1, long_face_node_ids |-> <<>>, neighbor |-> -1,
   midpoint |-> <<0, 0>>, midpoint_id |-> -1,
   ccwise_node_id |-> -1, cwise_node_id |-> -1,
   opposing_node_id |-> -1, neighbor_opposing_node_id |-> -1,
   neighbor_long_face |-> -1, new_elems |-> <<>>]

\* adapt, lines 35-42: the longest face as find_longest_face returned it, the
\* neighbour across it (mesh.elements[-1] across a face with neighbour -1)
\* and the midpoint of the face appended to mesh.node_coords
adapt_midpoint(l, found) ==
  LET elem == l.mesh.elements[l.elem + 1]
      ids == found.long_face_node_ids
  IN IF found.error # "" THEN [l EXCEPT !.error = found.error]
     ELSE IF \E k \in 1..Len(ids) : ~InBounds(l.mesh.node_coords, ids[k])
     THEN [l EXCEPT !.error = "IndexError",
                    !.long_face = found.long_face,
                    !.long_face_node_ids = ids,
                    !.neighbor = Position(l.mesh.elements,
                                          elem.face_to_neighbors[found.long_face + 1])]
     ELSE LET p == At(l.mesh.node_coords, ids[1])
              q == At(l.mesh.node_coords, ids[2])
              midpoint == <<(p[1] + q[1]) \div 2, (p[2] + q[2]) \div 2>>
          IN [l EXCEPT !.long_face = found.long_face,
                       !.long_face_node_ids = ids,
                       !.neighbor = Position(l.mesh.elements,
                                             elem.face_to_neighbors[found.long_face + 1]),
                       !.midpoint = midpoint,
                       !.mesh.node_coords = Append(@, midpoint),
                       !.midpoint_id = Len(l.mesh.node_coords)]

\* adapt, lines 45-55: the nodes of the four new elements
adapt_new_nodes(l) ==
  LET elem == l.mesh.elements[l.elem + 1]
      neighbor == l.mesh.elements[l.neighbor + 1]
      ids == l.long_face_node_ids
      ccw == find_counterclockwise_node(elem.node_ids, ids[1], ids[2])
      neighbor_opposing_node_id == setdiff1d_first(neighbor.node_ids, ids)
  IN IF ccw.error # "" THEN [l EXCEPT !.error = ccw.error]
     ELSE [l EXCEPT
             !.ccwise_node_id = ccw.ccwise_node,
             !.cwise_node_id = ccw.cwise_node,
             !.opposing_node_id = setdiff1d_first(elem.node_ids, ids),
             !.neighbor_opposing_node_id = neighbor_opposing_node_id,
             !.neighbor_long_face =
               FirstIndex(neighbor.node_ids, neighbor_opposing_node_id)]

\* adapt, lines 56-68: the arguments of the four calls of append_element
new_elem_arguments(l) ==
  <<[node_ids |-> <<l.opposing_node_id, l.midpoint_id, l.ccwise_node_id>>,
     face_id |-> 1, parent |-> l.elem, parent_face_id |-> l.long_face - 2],
    [node_ids |-> <<l.opposing_node_id, l.cwise_node_id, l.midpoint_id>>,
     face_id |-> 2, parent |-> l.elem, parent_face_id |-> l.long_face - 1],
    [node_ids |-> <<l.midpoint_id, l.neighbor_opposing_node_id,
                    l.ccwise_node_id>>,
     face_id |-> 0, parent |-> l.neighbor,
     parent_face_id |-> l.neighbor_long_face - 1],
    [node_ids |-> <<l.midpoint_id, l.cwise_node_id,
                    l.neighbor_opposing_node_id>>,
     face_id |-> 0, parent |-> l.neighbor,
     parent_face_id |-> l.neighbor_long_face - 2]>>

\* adapt, lines 62-68: the next of the four calls of append_element
adapt_append_element(l) ==
  LET arguments == new_elem_arguments(l)[Len(l.new_elems) + 1]
      appended ==
        CHOOSE r \in {append_element(l.mesh, arguments.node_ids,
                                     arguments.face_id, arguments.parent,
                                     arguments.parent_face_id)} : TRUE
  IN [l EXCEPT !.error = appended.error,
               !.mesh = appended.mesh,
               !.new_elems = Append(@, appended.elem)]

\* adapt, lines 76-79: the four faces between the new elements
adapt_append_faces(l) ==
  LET e == l.new_elems
      m1 == append_face(l.mesh, e[1], e[2], 2, 1)
      m2 == append_face(m1, e[3], e[4], 2, 1)
      m3 == append_face(m2, e[1], e[3], 0, 1)
  IN [l EXCEPT !.mesh = append_face(m3, e[2], e[4], 0, 2)]

\* adapt, lines 85-90: the element and its neighbour are deactivated and are
\* given coordinates of their own, a small triangle at their centroid
adapt_deactivate(l) ==
  LET opposing == At(l.mesh.node_coords, l.opposing_node_id)
      neighbor_opposing == At(l.mesh.node_coords, l.neighbor_opposing_node_id)
      centroid == <<(l.midpoint[1] + opposing[1]) \div 2,
                    (l.midpoint[2] + opposing[2]) \div 2>>
      neighbor_centroid == <<(l.midpoint[1] + neighbor_opposing[1]) \div 2,
                             (l.midpoint[2] + neighbor_opposing[2]) \div 2>>
      small(c) == <<c, <<c[1] + 8, c[2]>>, <<c[1] + 8, c[2] + 8>>>>
      deactivated ==
        [l.mesh EXCEPT
           !.elements[l.elem + 1].face_to_neighbors = <<-1, -1, -1>>,
           !.elements[l.elem + 1].node_coords = small(centroid)]
  IN [l EXCEPT
        !.mesh = [deactivated EXCEPT
                    !.elements[l.neighbor + 1].face_to_neighbors = <<-1, -1, -1>>,
                    !.elements[l.neighbor + 1].node_coords =
                      small(neighbor_centroid)]]

\* adapt without its line 99: the operators are not precomputed again
adapt_update_solver_stale_operators(l) ==
  LET last(rows) == rows[Len(rows)]
      four(rows) == rows \o <<last(rows), last(rows), last(rows), last(rows)>>
  IN [l EXCEPT !.x_elems = four(@),
               !.U = four(@),
               !.R = "None"]

\* adapt, lines 93-109: four rows are appended to x_elems, the operators are
\* precomputed again, four copies of the last row are appended to U and the
\* residual of the stepper is dropped
adapt_update_solver(l) ==
  LET last(rows) == rows[Len(rows)]
      four(rows) == rows \o <<last(rows), last(rows), last(rows), last(rows)>>
  IN [l EXCEPT !.x_elems = four(@),
               !.operators = l.mesh.num_elems,
               !.U = four(@),
               !.R = "None"]

\* the stages of a pass after find_longest_face and the midpoint
adapt_stage(name, l) ==
  CASE name = "new_nodes" -> adapt_new_nodes(l)
    [] name = "append_element" -> adapt_append_element(l)
    [] name = "append_faces" -> adapt_append_faces(l)
    [] name = "deactivate" -> adapt_deactivate(l)
    [] name = "update_solver" -> adapt_update_solver(l)

\* one stage of a pass after the other: a stage that raised ends the pass
RECURSIVE adapt_stages(_, _)
adapt_stages(l, names) ==
  IF names = <<>> THEN l
  ELSE CHOOSE r \in {IF v.error # "" THEN v
                     ELSE adapt_stages(adapt_stage(Head(names), v), Tail(names))
                       : v \in {l}} : TRUE

\* adapt, lines 31-109: one pass of the loop over the element elem, for one
\* outcome of find_longest_face
adapt_elem(s, elem, found) ==
  adapt_stages(adapt_midpoint(Locals(s, elem), found),
               <<"new_nodes", "append_element", "append_element",
                 "append_element", "append_element", "append_faces",
                 "deactivate", "update_solver">>)

\* the part of the local variables of a pass that is kept after it
PassOf(l) ==
  [elem |-> l.elem, long_face |-> l.long_face,
   long_face_node_ids |-> l.long_face_node_ids, neighbor |-> l.neighbor,
   new_elems |-> l.new_elems]

\* no pass has run
NoPass ==
  [elem |-> -1, long_face |-> -1, long_face_node_ids |-> <<>>,
   neighbor |-> -1, new_elems |-> <<>>]

\* a solver on one of the meshes, before adapt is called
InitAdapt ==
  /\ ResidualIdle
  /\ int_face_helpers = None
  /\ solver = None
  /\ nonfinite = None
  /\ user_adaptation = None
  /\ \E m \in AdaptMeshes :
       adaptation = [solver |-> AdaptedSolver(m), pc |-> "idle", error |-> "",
                     elem_id |-> 0, range |-> 0, ncalls |-> 0,
                     pass |-> NoPass]

\* adapt, lines 18-24: elements 0 and 1 are flagged and the loop starts over
\* the elements the mesh has at this moment; flagging element 1 of a mesh of
\* one element raises
adapt_flag ==
  /\ adaptation # None
  /\ adaptation.pc = "idle"
  /\ adaptation.ncalls < MaxAdapts
  /\ adaptation' =
       IF adaptation.solver.mesh.num_elems < 2
       THEN [adaptation EXCEPT !.pc = "raised", !.error = "IndexError",
                               !.ncalls = @ + 1]
       ELSE [adaptation EXCEPT !.pc = "loop", !.elem_id = 0,
                               !.range = adaptation.solver.mesh.num_elems,
                               !.ncalls = @ + 1, !.pass = NoPass]
  /\ UNCHANGED not_adaptation

\* adapt, lines 26-109: the pass of the loop over a flagged element
adapt_refine ==
  /\ adaptation # None
  /\ adaptation.pc = "loop"
  /\ adaptation.elem_id < adaptation.range
  /\ adaptation.elem_id \in {0, 1}
  /\ \E found \in find_longest_face(
                    adaptation.solver.mesh.elements[adaptation.elem_id + 1],
                    adaptation.solver.mesh) :
       \E l \in {adapt_elem(adaptation.solver, adaptation.elem_id, found)} :
         adaptation' =
           [adaptation EXCEPT
              !.solver = [mesh |-> l.mesh, U |-> l.U, x_elems |-> l.x_elems,
                          operators |-> l.operators, R |-> l.R],
              !.pass = PassOf(l),
              !.error = l.error,
              !.pc = IF l.error # "" THEN "raised" ELSE "loop",
              !.elem_id = IF l.error # "" THEN @ ELSE @ + 1]
  /\ UNCHANGED not_adaptation

\* adapt, line 26: the pass of the loop over an element that is not flagged
adapt_skip ==
  /\ adaptation # None
  /\ adaptation.pc = "loop"
  /\ adaptation.elem_id < adaptation.range
  /\ adaptation.elem_id \notin {0, 1}
  /\ adaptation' = [adaptation EXCEPT !.elem_id = @ + 1]
  /\ UNCHANGED not_adaptation

\* adapt, line 24: the loop has run over its range and adapt returns
adapt_return ==
  /\ adaptation # None
  /\ adaptation.pc = "loop"
  /\ adaptation.elem_id = adaptation.range
  /\ adaptation' = [adaptation EXCEPT !.pc = "idle"]
  /\ UNCHANGED not_adaptation

NextAdapt ==
  \/ adapt_flag
  \/ adapt_refine
  \/ adapt_skip
  \/ adapt_return

SpecAdapt == InitAdapt /\ [][NextAdapt]_vars


\* ------------------------------------------------------------------------
\* C19: elements and the shared node array
\* ------------------------------------------------------------------------

\* the coordinates of an element are the rows of mesh.node_coords at its node
\* ids
SharesNodeStorage(m, elem) ==
  elem.node_coords
    = [k \in 1..Len(elem.node_ids) |-> At(m.node_coords, elem.node_ids[k])]

\* a step keeps every row of mesh.node_coords and at most appends rows
NodeCoordsOnlyGrow ==
  LET before == adaptation.solver.mesh.node_coords
      after == adaptation'.solver.mesh.node_coords
  IN /\ Len(before) <= Len(after)
     /\ \A k \in 1..Len(before) : after[k] = before[k]

\* C19: after any sequence of adaptation operations the coordinates of every
\* element are the rows of the shared mesh.node_coords at the element's node
\* ids, and the rows of mesh.node_coords are never changed or removed
C19_ElementsNeverOwnNodeStorage ==
  [][/\ \A k \in 1..Len(adaptation'.solver.mesh.elements) :
          SharesNodeStorage(adaptation'.solver.mesh,
                            adaptation'.solver.mesh.elements[k])
     /\ NodeCoordsOnlyGrow]_vars

\* the half of C19 that adapt keeps: mesh.node_coords only grows
C19_NodeCoordsOnlyGrow == [][NodeCoordsOnlyGrow]_vars

\* a pass of adapt has split an element and its neighbour, and has appended
\* the midpoint of their face to mesh.node_coords
C19_Witness ==
  /\ adaptation.error = ""
  /\ adaptation.pass.elem = 0
  /\ Len(adaptation.pass.new_elems) = 4
  /\ Len(adaptation.solver.mesh.node_coords) = 5
  /\ ~SharesNodeStorage(adaptation.solver.mesh,
                        adaptation.solver.mesh.elements[1])


\* ------------------------------------------------------------------------
\* The adaptation callback of the reverse_coarsening case
\* (custom_user_adaptation.py).  Times are integers in a common unit.
\* ------------------------------------------------------------------------

\* the largest solver time and the largest time step the callback is called
\* with
MaxTime == 12
MaxDt == 4

\* int(num / den) of Python for den > 0: the quotient truncated toward zero
int(num, den) == IF num >= 0 THEN num \div den ELSE -((-num) \div den)

\* custom_user_adaptation: the refinement request for the solver clock
custom_user_adaptation(time, dt) ==
  LET i == int(time, dt) - 1
  IN IF i = 0
     THEN [refine_IDs |-> <<1>>, split_face_IDs |-> <<0>>, coarsen_IDs |-> {}]
     ELSE [refine_IDs |-> <<>>, split_face_IDs |-> <<>>,
           coarsen_IDs |-> {1, 2}]

\* a solver clock and no call of the callback so far
InitUserAdapt ==
  /\ ResidualIdle
  /\ int_face_helpers = None
  /\ solver = None
  /\ nonfinite = None
  /\ adaptation = None
  /\ \E time \in (-MaxDt)..MaxTime, dt \in 1..MaxDt :
       user_adaptation = [time |-> time, dt |-> dt, called |-> FALSE,
                          request |-> None]

\* the solver calls the callback
call_custom_user_adaptation ==
  /\ user_adaptation # None
  /\ user_adaptation' =
       [user_adaptation EXCEPT
          !.called = TRUE,
          !.request = custom_user_adaptation(user_adaptation.time,
                                             user_adaptation.dt)]
  /\ UNCHANGED not_user_adaptation

\* the solver takes a time step
user_adaptation_time_step ==
  /\ user_adaptation # None
  /\ user_adaptation.time + user_adaptation.dt <= MaxTime
  /\ user_adaptation' =
       [user_adaptation EXCEPT !.time = @ + user_adaptation.dt,
                               !.called = FALSE, !.request = None]
  /\ UNCHANGED not_user_adaptation

NextUserAdapt ==
  \/ call_custom_user_adaptation
  \/ user_adaptation_time_step

SpecUserAdapt == InitUserAdapt /\ [][NextUserAdapt]_vars

\* the iteration index the callback computes
IterationIndex == int(user_adaptation.time, user_adaptation.dt) - 1

\* C20: at the call where the iteration index int(time/dt) - 1 is 0 the
\* callback requests the refinement of element 0 with split face 0 and no
\* coarsening, and at every other call it requests no refinement
C20_SplitsElementZero ==
  user_adaptation.called =>
    IF IterationIndex = 0
    THEN /\ user_adaptation.request.refine_IDs = <<0>>
         /\ user_adaptation.request.split_face_IDs = <<0>>
         /\ user_adaptation.request.coarsen_IDs = {}
    ELSE user_adaptation.request.refine_IDs = <<>>

\* what the callback does: the element it asks to refine at iteration index 0
\* is element 1, and at every other call it asks for no refinement and for
\* the coarsening of elements 1 and 2
C20_SplitsElementOne ==
  user_adaptation.called =>
    IF IterationIndex = 0
    THEN /\ user_adaptation.request.refine_IDs = <<1>>
         /\ user_adaptation.request.split_face_IDs = <<0>>
         /\ user_adaptation.request.coarsen_IDs = {}
    ELSE /\ user_adaptation.request.refine_IDs = <<>>
         /\ user_adaptation.request.split_face_IDs = <<>>
         /\ user_adaptation.request.coarsen_IDs = {1, 2}

\* the callback was called after the first time step
C20_Witness ==
  /\ user_adaptation.called
  /\ user_adaptation.time = user_adaptation.dt
  /\ IterationIndex = 0


\* ----------------------------------------------------------------------- C21
\* the two contracted face integrals of the step that assembles the interior
\* face iiface, from the numerical flux the step evaluated
FaceIntegralL(iiface) ==
  calculate_inviscid_flux_boundary_integral(
    faces_to_basisL[mesh.interior_faces[iiface].faceL_ID], face_quad_wts,
    fluxLog'[1].Fq)

FaceIntegralR(iiface) ==
  calculate_inviscid_flux_boundary_integral(
    faces_to_basisR[mesh.interior_faces[iiface].faceR_ID], face_quad_wts,
    fluxLog'[1].Fq)

\* C21: assembling one interior face changes only the residual of its left
\* and of its right element and leaves U and every other element's residual
\* unchanged; the two in-place updates through the views R[elemL] and
\* R[elemR] are both retained in R, also when elemL equals elemR
C21_InteriorFaceFrame ==
  [][IFaceStep =>
       LET f == mesh.interior_faces[lastIFace']
           L == f.elemL_ID
           Rt == f.elemR_ID
       IN /\ U' = U
          /\ \A e \in DOMAIN R : e \notin {L, Rt} => R'[e] = R[e]
          /\ params.ConvFluxSwitch =>
               \A b \in Basis :
                 IF L = Rt
                 THEN Delta(L)[b] = FaceIntegralR(lastIFace')[b]
                                      - FaceIntegralL(lastIFace')[b]
                 ELSE /\ Delta(L)[b] = -FaceIntegralL(lastIFace')[b]
                      /\ Delta(Rt)[b] = FaceIntegralR(lastIFace')[b]
          /\ ~params.ConvFluxSwitch => R' = R]_vars

\* an interior face whose left and right element are the same element has
\* been assembled, with a left integral that is not zero
C21_Witness ==
  /\ lastIFace >= 0
  /\ fluxLog # <<>>
  /\ mesh.interior_faces[lastIFace].elemL_ID
       = mesh.interior_faces[lastIFace].elemR_ID
  /\ \E b \in Basis :
       calculate_inviscid_flux_boundary_integral(
         faces_to_basisL[mesh.interior_faces[lastIFace].faceL_ID],
         face_quad_wts, fluxLog[1].Fq)[b] # 0


\* ------------------------------------------------------------------------
\* C22: find_counterclockwise_node
\* ------------------------------------------------------------------------

\* the more counterclockwise of two distinct nodes a and b of a
\* counterclockwise array: the one that appears later, and the one at index 0
\* when the pair wraps around from the last index to index 0
MoreCounterclockwise(nodes, a, b) ==
  LET a_index == FirstIndex(nodes, a)
      b_index == FirstIndex(nodes, b)
  IN IF {a_index, b_index} = {0, Len(nodes) - 1}
     THEN nodes[1]
     ELSE IF a_index > b_index THEN a ELSE b

\* the pairs of distinct nodes of the node arrays of the mesh
NodePairs ==
  {<<k, a, b>> \in (1..Len(adaptation.solver.mesh.elements))
                     \X (0..(Len(adaptation.solver.mesh.node_coords) - 1))
                     \X (0..(Len(adaptation.solver.mesh.node_coords) - 1)) :
     /\ a # b
     /\ a \in Values(adaptation.solver.mesh.elements[k].node_ids)
     /\ b \in Values(adaptation.solver.mesh.elements[k].node_ids)}

\* C22: for two distinct nodes of a counterclockwise node array,
\* find_counterclockwise_node returns first the more counterclockwise node
\* (the later one, the one at index 0 when the pair wraps around) and second
\* the other node, whatever the order of the two arguments
C22_ReturnsMoreCounterclockwise ==
  \A p \in NodePairs :
    LET nodes == adaptation.solver.mesh.elements[p[1]].node_ids
        found == find_counterclockwise_node(nodes, p[2], p[3])
        ahead == MoreCounterclockwise(nodes, p[2], p[3])
    IN /\ found.error = ""
       /\ found.ccwise_node = ahead
       /\ found.cwise_node = IF ahead = p[2] THEN p[3] ELSE p[2]
       /\ found = find_counterclockwise_node(nodes, p[3], p[2])

\* what find_counterclockwise_node does: the result does not depend on the
\* order of the arguments and is the more counterclockwise node first, but
\* for the pair at the indices 0 and 1, where it is the node at index 0
C22_Index0And1Swapped ==
  \A p \in NodePairs :
    LET nodes == adaptation.solver.mesh.elements[p[1]].node_ids
        found == find_counterclockwise_node(nodes, p[2], p[3])
        ahead == MoreCounterclockwise(nodes, p[2], p[3])
        low == {FirstIndex(nodes, p[2]), FirstIndex(nodes, p[3])} = {0, 1}
    IN /\ found = find_counterclockwise_node(nodes, p[3], p[2])
       /\ found.ccwise_node = IF low THEN nodes[1] ELSE ahead
       /\ {found.ccwise_node, found.cwise_node} = {p[2], p[3]}

\* a pass of adapt has called find_counterclockwise_node for a longest face
\* whose nodes are at the indices 0 and 1 of the element
C22_Witness ==
  /\ adaptation.error = ""
  /\ Len(adaptation.pass.new_elems) = 4
  /\ LET nodes == adaptation.solver.mesh.elements[adaptation.pass.elem + 1].node_ids
         ids == adaptation.pass.long_face_node_ids
     IN /\ ids[1] # ids[2]
        /\ {FirstIndex(nodes, ids[1]), FirstIndex(nodes, ids[2])} = {0, 1}


\* ------------------------------------------------------------------------
\* C23: find_longest_face
\* ------------------------------------------------------------------------

\* this step is a pass of adapt over a flagged element in which
\* find_longest_face has returned
LongestFaceReturned ==
  /\ adaptation.pc = "loop"
  /\ adaptation.elem_id < adaptation.range
  /\ adaptation.elem_id \in {0, 1}
  /\ adaptation' # adaptation
  /\ adaptation'.pass.long_face_node_ids # <<>>

\* the local faces of an element that have a neighbour
InteriorFacesOf(elem) ==
  {i \in 0..(NFACES_Tri - 1) : elem.face_to_neighbors[i + 1] # -1}

\* the face i of elem is an interior face, as long as any interior face of
\* elem, and ids are the two nodes elem shares with its neighbour across i
IsLongestInteriorFace(m, elem, i, ids) ==
  /\ i \in InteriorFacesOf(elem)
  /\ LET across(j) == face_geometry_between(
                        elem, At(m.elements, elem.face_to_neighbors[j + 1]),
                        m.node_coords)
     IN /\ \A j \in InteriorFacesOf(elem) : across(j).area <= across(i).area
        /\ Len(ids) = 2
        /\ Values(ids) = Values(across(i).face_node_ids)
        /\ Cardinality(Values(ids)) = 2

\* C23: find_longest_face returns an interior face of the element that is as
\* long as any of its interior faces, with the two node ids of that face; a
\* boundary face is never returned, so the neighbour adapt looks up across
\* the face is a real adjacent element
C23_LongestFaceIsInterior ==
  [][LongestFaceReturned =>
       LET m == adaptation.solver.mesh
           elem == m.elements[adaptation.elem_id + 1]
           lf == adaptation'.pass.long_face
       IN /\ IsLongestInteriorFace(m, elem, lf,
                                   adaptation'.pass.long_face_node_ids)
          /\ adaptation'.pass.neighbor = elem.face_to_neighbors[lf + 1]
          /\ elem.id \in Values(m.elements[adaptation'.pass.neighbor + 1]
                                  .face_to_neighbors)]_vars

\* what find_longest_face keeps: a face it returns that has a neighbour is
\* the first longest interior face, with the two nodes shared across it
C23_LongestAmongComputed ==
  [][LongestFaceReturned =>
       LET m == adaptation.solver.mesh
           elem == m.elements[adaptation.elem_id + 1]
           lf == adaptation'.pass.long_face
       IN lf \in InteriorFacesOf(elem) =>
            /\ IsLongestInteriorFace(m, elem, lf,
                                     adaptation'.pass.long_face_node_ids)
            /\ adaptation'.pass.neighbor = elem.face_to_neighbors[lf + 1]]_vars

\* adapt has run its pass over element 1 after the pass over element 0 had
\* deactivated it: find_longest_face was called on an element without any
\* interior face
C23_Witness ==
  /\ adaptation.pass.elem = 1
  /\ adaptation.pass.long_face >= 0
  /\ adaptation.pass.neighbor = Len(adaptation.solver.mesh.elements) - 1
       \/ adaptation.error # ""
  /\ Len(adaptation.solver.mesh.elements) >= 6


\* ------------------------------------------------------------------------
\* C24: append_element
\* ------------------------------------------------------------------------

\* the calls of append_element on the mesh: a parent, one of its faces as
\* adapt names it (long_face - 2 .. long_face), and a face of the new element
AppendElementCalls ==
  (0..(Len(adaptation.solver.mesh.elements) - 1))
    \X ((-2)..(NFACES_Tri - 1)) \X (0..(NFACES_Tri - 1))

\* the interior faces of m that differ in after
ChangedFaces(m, after) ==
  {k \in 1..Len(m.interior_faces) :
     after.interior_faces[k] # m.interior_faces[k]}

\* the side of an interior face at which it names the element e, with the
\* face replaced by (id, face_id) at that side
Replaced(face, e, id, face_id) ==
  IF face.elemL_id = e
  THEN [face EXCEPT !.elemL_id = id, !.faceL_id = face_id]
  ELSE [face EXCEPT !.elemR_id = id, !.faceR_id = face_id]

\* append_element(m, ., face_id, parent, parent_face_id) has re-pointed the
\* adjacency of the parent's neighbour N to the new element
Repointed(m, face_id, parent, parent_face_id) ==
  LET p == m.elements[parent + 1]
      N == At(p.face_to_neighbors, parent_face_id)
      r == append_element(m, p.node_ids, face_id, parent, parent_face_id)
      id == Len(m.elements)
      new == r.mesh.elements[id + 1]
      changed == ChangedFaces(m, r.mesh)
  IN /\ r.error = ""
     /\ Len(r.mesh.elements) = id + 1
     /\ new.face_to_neighbors[face_id + 1] = N
     /\ \A e \in 1..Len(m.elements) :
          IF e = N + 1 /\ N # -1
          THEN LET before == m.elements[e].face_to_neighbors
                   now == r.mesh.elements[e].face_to_neighbors
                   i == FirstIndex(before, p.id)
               IN /\ now[i + 1] = id
                  /\ \A j \in 1..Len(before) : j # i + 1 => now[j] = before[j]
                  /\ [r.mesh.elements[e] EXCEPT !.face_to_neighbors = before]
                       = m.elements[e]
          ELSE r.mesh.elements[e] = m.elements[e]
     /\ Len(r.mesh.interior_faces) = Len(m.interior_faces)
     /\ IF N = -1 THEN changed = {}
        ELSE \E k \in 1..Len(m.interior_faces) :
               /\ changed = {k}
               /\ {m.interior_faces[k].elemL_id, m.interior_faces[k].elemR_id}
                    = {p.id, N}
               /\ r.mesh.interior_faces[k]
                    = Replaced(m.interior_faces[k], p.id, id, face_id)

\* the parent's neighbour across parent_face_id is -1, or it is an element N
\* that has a face pointing to the parent, with an interior face between the
\* parent and N in mesh.interior_faces
Adjacent(m, parent, parent_face_id) ==
  LET p == m.elements[parent + 1]
      N == At(p.face_to_neighbors, parent_face_id)
  IN N # -1 =>
       /\ p.id \in Values(m.elements[N + 1].face_to_neighbors)
       /\ \E k \in 1..Len(m.interior_faces) :
            \/ /\ m.interior_faces[k].elemL_id = p.id
               /\ m.interior_faces[k].elemR_id = N
            \/ /\ m.interior_faces[k].elemR_id = p.id
               /\ m.interior_faces[k].elemL_id = N

AdaptCompleted ==
  /\ adaptation.pc = "idle"
  /\ adaptation.ncalls > 0
  /\ adaptation.error = ""

\* an element adapt has deactivated: all its neighbours are -1
Deactivated(elem) == \A f \in 1..NFACES_Tri : elem.face_to_neighbors[f] = -1

\* the two elements of the interior face are active and list each other as
\* neighbours across the local faces the face records
FaceConsistent(m, face) ==
  LET left == m.elements[face.elemL_id + 1]
      right == m.elements[face.elemR_id + 1]
  IN /\ ~Deactivated(left)
     /\ ~Deactivated(right)
     /\ left.face_to_neighbors[face.faceL_id + 1] = face.elemR_id
     /\ right.face_to_neighbors[face.faceR_id + 1] = face.elemL_id

\* C25: after adapt completes every interior face references active elements
\* only, never a deactivated parent, and its two elements list each other as
\* neighbours across the recorded local faces
C25_MeshConsistentAfterAdapt ==
  AdaptCompleted =>
    \A k \in 1..Len(adaptation.solver.mesh.interior_faces) :
      FaceConsistent(adaptation.solver.mesh,
                     adaptation.solver.mesh.interior_faces[k])

\* what adapt keeps: the four faces a pass appends are consistent when the
\* pass ends
C25_NewFacesConsistent ==
  [][(adaptation'.error = "" /\ Len(adaptation'.pass.new_elems) = 4
        /\ adaptation'.pass # adaptation.pass) =>
       LET m == adaptation'.solver.mesh
       IN \A k \in (Len(m.interior_faces) - 3)..Len(m.interior_faces) :
            FaceConsistent(m, m.interior_faces[k])]_vars

\* adapt has completed with both passes splitting across a computed face
C25_Witness ==
  /\ AdaptCompleted
  /\ Len(adaptation.solver.mesh.elements) = 12
  /\ Cardinality(Values(adaptation.pass.long_face_node_ids)) = 2
  /\ \E k \in 1..Len(adaptation.solver.mesh.interior_faces) :
       LET face == adaptation.solver.mesh.interior_faces[k]
       IN /\ Deactivated(adaptation.solver.mesh.elements[face.elemL_id + 1])
          /\ Deactivated(adaptation.solver.mesh.elements[face.elemR_id + 1])


\* ------------------------------------------------------------------------
\* Sequences of calls of append_element and append_face
\* ------------------------------------------------------------------------

\* the number of calls in a sequence
MaxAppends == 2

\* the meshes the sequences start from
AppendMeshes == {OneTriangle, TwoTriangles(0, 0)}

\* no call so far
NoCall ==
  [function |-> "", elem1 |-> -1, elem2 |-> -1, faceL_id |-> -1,
   faceR_id |-> -1]

\* a mesh before the first call
InitAppend ==
  /\ ResidualIdle
  /\ int_face_helpers = None
  /\ solver = None
  /\ nonfinite = None
  /\ user_adaptation = None
  /\ \E m \in AppendMeshes :
       adaptation = [solver |-> AdaptedSolver(m), error |-> "", ncalls |-> 0,
                     created |-> <<>>, last |-> NoCall]

\* a call of append_element for a new element on the nodes of its parent
call_append_element ==
  /\ adaptation # None
  /\ adaptation.error = ""
  /\ adaptation.ncalls < MaxAppends
  /\ \E parent \in 0..(Len(adaptation.solver.mesh.elements) - 1),
        parent_face_id \in 0..(NFACES_Tri - 1),
        face_id \in 0..(NFACES_Tri - 1) :
       \E r \in {append_element(
                   adaptation.solver.mesh,
                   adaptation.solver.mesh.elements[parent + 1].node_ids,
                   face_id, parent, parent_face_id)} :
         adaptation' =
           [adaptation EXCEPT
              !.solver.mesh = r.mesh,
              !.error = r.error,
              !.ncalls = @ + 1,
              !.last = [NoCall EXCEPT !.function = "append_element",
                                      !.elem1 = r.elem]]
  /\ UNCHANGED not_adaptation

\* a call of append_face between two elements of the mesh
call_append_face ==
  /\ adaptation # None
  /\ adaptation.error = ""
  /\ adaptation.ncalls < MaxAppends
  /\ \E elem1 \in 0..(Len(adaptation.solver.mesh.elements) - 1),
        elem2 \in 0..(Len(adaptation.solver.mesh.elements) - 1),
        faceL_id \in 0..(NFACES_Tri - 1),
        faceR_id \in 0..(NFACES_Tri - 1) :
       /\ elem1 # elem2
       /\ LET call == [function |-> "append_face", elem1 |-> elem1,
                       elem2 |-> elem2, faceL_id |-> faceL_id,
                       faceR_id |-> faceR_id]
          IN adaptation' =
               [adaptation EXCEPT
                  !.solver.mesh = append_face(@, elem1, elem2, faceL_id,
                                              faceR_id),
                  !.ncalls = @ + 1,
                  !.created = Append(@, call),
                  !.last = call]
  /\ UNCHANGED not_adaptation

NextAppend ==
  \/ call_append_element
  \/ call_append_face

SpecAppend == InitAppend /\ [][NextAppend]_vars

\* ----------------------------------------------------------------------- C26
\* the counters of the mesh match its containers and the ids the positions
CountersMatch(m) ==
  /\ m.num_elems = Len(m.elements)
  /\ m.num_elems = Len(m.elem_to_node_ids)
  /\ m.num_interior_faces = Len(m.interior_faces)
  /\ \A k \in 1..Len(m.elements) : m.elements[k].id = k - 1

\* the two elements of a call of append_face point to each other across the
\* faces of the call
PointToEachOther(m, call) ==
  /\ m.elements[call.elem1 + 1].face_to_neighbors[call.faceL_id + 1]
       = m.elements[call.elem2 + 1].id
  /\ m.elements[call.elem2 + 1].face_to_neighbors[call.faceR_id + 1]
       = m.elements[call.elem1 + 1].id

\* C26 as stated: after any sequence of calls of append_element and
\* append_face the counters match the containers, the ids match the
\* positions, and for every face created by append_face the two elements of
\* the call point to each other across faceL_id and faceR_id
C26_CountersAndEveryCreatedFace ==
  /\ CountersMatch(adaptation.solver.mesh)
  /\ \A k \in 1..Len(adaptation.created) :
       PointToEachOther(adaptation.solver.mesh, adaptation.created[k])

\* C26 amended: after any sequence of calls of append_element and
\* append_face the counters match the containers and the ids match the
\* positions, and when append_face returns the two elements of the call
\* point to each other across faceL_id and faceR_id
C26_CountersAndNewFace ==
  /\ CountersMatch(adaptation.solver.mesh)
  /\ adaptation.last.function = "append_face"
       => PointToEachOther(adaptation.solver.mesh, adaptation.last)

\* append_face has returned after an earlier call
C26_Witness ==
  /\ adaptation.ncalls = MaxAppends
  /\ adaptation.last.function = "append_face"
  /\ Len(adaptation.solver.mesh.elements) > 2


\* ----------------------------------------------------------------------- C27
\* C27: after adapt the number of rows of physics.U is mesh.num_elems, the
\* cached operators are the ones precomputed for the mesh as it is now, and
\* stepper.R is None, so that the next residual evaluation allocates its
\* residual as a copy of U, with one row per element of the new mesh
C27_SolverFollowsMesh ==
  AdaptCompleted =>
    /\ Len(adaptation.solver.U) = adaptation.solver.mesh.num_elems
    /\ adaptation.solver.operators = adaptation.solver.mesh.num_elems
    /\ adaptation.solver.R = "None"
    /\ adaptation.solver.mesh.num_elems
         = Len(adaptation.solver.mesh.elements)

\* adapt has returned after two passes that each appended four elements
C27_Witness ==
  /\ AdaptCompleted
  /\ adaptation.pass.elem = 1
  /\ Len(adaptation.pass.new_elems) = 4
  /\ adaptation.solver.mesh.num_elems > Len(adaptation.solver.mesh.node_coords)
  /\ Len(adaptation.solver.U) >= 10


\* ----------------------------------------------------------------------- C28
\* solve has been entered and has not raised: the solver is in a pass of
\* the time loop or has left the loop
InTimeStep ==
  /\ solver # None
  /\ solver.pc \in {"calculate_predictor_step", "calculate_residual",
                    "TakeTimeStep", "update"}

SolveReturned == solver # None /\ solver.pc = "done"

\* the step raised: the pass it was in is not completed
RaisedInTimeStep ==
  /\ solver # None
  /\ solver.pc = "raised"
  /\ solver.raised_in \in {"calculate_predictor_step", "calculate_residual"}

TimeStepSet ==
  /\ solver # None
  /\ solver.cls = "ADERDG"
  /\ InTimeStep \/ RaisedInTimeStep \/ SolveReturned

\* C29: the time step the ADER space-time operators were precomputed with
\* (EndTime/NumTimeSteps in precompute_matrix_operators) equals the time
\* step Stepper.dt the time loop uses for every step, for every StartTime,
\* EndTime and step count.
C29_OperatorsUseStepperDt ==
  TimeStepSet => solver.operators.dt = solver.Stepper.dt

\* what the code keeps: the two time steps differ by StartTime/NumTimeSteps,
\* and are equal when StartTime = 0
C29_TimeStepsDifferByStartTime ==
  TimeStepSet =>
    solver.Params.NumTimeSteps * (solver.operators.dt - solver.Stepper.dt)
      = solver.Params.StartTime

\* a time loop that runs with half the time step of its operators
C29_Witness ==
  /\ TimeStepSet
  /\ solver.pc = "calculate_residual"
  /\ solver.Params.StartTime = 2
  /\ solver.Params.EndTime = 4
  /\ solver.Params.NumTimeSteps = 1
  /\ solver.operators.dt = 4
  /\ solver.Stepper.dt = 2


\* ----------------------------------------------------------------------- C30
\* the predictor is about to be called on the space-time state Up
PredictorEntered == solver # None /\ solver.pc = "calculate_predictor_step"

\* source_coefficients completes and returns S(Up) = nu Up times dt/2, as
\* flux_coefficients returns F(Up) = c Up times dt/2
SourceScaledLikeFlux(s, elem, dt, Up) ==
  LET S == source_coefficients(s, elem, dt, Up)
      F == flux_coefficients(s, elem, dt, Up)
  IN /\ S.error = ""
     /\ S.S.den = 2 * Up.den
     /\ S.S.num = [i \in 1..4 |-> dt * s.physics.nu * Up.num[i]]
     /\ F.den = S.S.den
     /\ F.num = [i \in 1..4 |-> dt * s.physics.c * Up.num[i]]

\* C30: source_coefficients returns the coefficients of the source term
\* multiplied by dt/2 for both settings of InterpolateFlux and completes
\* without error in both branches, in the same way flux_coefficients returns
\* the flux coefficients multiplied by dt/2.
C30_SourceCoefficientsBothBranches ==
  PredictorEntered =>
    \A elem \in 0..(solver.mesh.num_elems - 1) :
      SourceScaledLikeFlux(solver, elem, solver.Stepper.dt, solver.Up[elem])

\* what the code keeps: the nodal interpolation branch
C30_SourceCoefficientsInterpolated ==
  (PredictorEntered /\ solver.Params.InterpolateFlux) =>
    \A elem \in 0..(solver.mesh.num_elems - 1) :
      SourceScaledLikeFlux(solver, elem, solver.Stepper.dt, solver.Up[elem])

\* a predictor that made one Picard iteration with a source term and a
\* non-zero solution in the interpolation branch
C30_Witness ==
  /\ solver # None
  /\ solver.pc = "calculate_residual"
  /\ solver.Params.InterpolateFlux
  /\ solver.physics.nu = 1
  /\ solver.niter = 1
  /\ solver.U[0] # <<0, 0>>
  /\ source_coefficients(solver, 0, solver.Stepper.dt, solver.Up[0]).S.num
       # <<0, 0, 0, 0>>

\* the projection branch was taken and raised
C30_ProjectionBranchRaises ==
  /\ solver # None
  /\ solver.pc = "raised"
  /\ solver.raised_in = "calculate_predictor_step"
  /\ solver.error = "UnboundLocalError"
  /\ ~solver.Params.InterpolateFlux

====
